---- MODULE Spec2Model ----
(***************************************************************************)
(* A model of the face-morphing engine (src/morph-engine.js, copied into   *)
(* src/app.js) and of the code that drives it.                             *)
(*                                                                         *)
(* Numbers.  The JavaScript code computes in IEEE doubles.  Landmark       *)
(* coordinates are integers here, and every quantity derived from them is  *)
(* kept as an exact fraction (numerator over a positive denominator), so   *)
(* Math.floor and Math.ceil of a coordinate are the identity                *)
(* and a comparison of two fractions is a comparison of cross products.    *)
(* Math.round(x) is floor(x + 1/2).  Math.sqrt is taken to three decimals, *)
(* rounded down; it is exact for the mask values 0 and 255.  NaN is a      *)
(* value of its own: a comparison with NaN is false.                       *)
(*                                                                         *)
(* Canvas.  The 2-D canvas calls of the code (polygon fill, CSS blur,      *)
(* drawImage) are the browser's, not this repository's: what they return   *)
(* is drawn from a family of images (MaskPattern) by the action.           *)
(***************************************************************************)
EXTENDS Integers, Sequences, FiniteSets, TLC

\* Half the width of the source image; the image is ImgW x ImgH pixels.
HalfW == 2
ImgW == 2 * HalfW
ImgH == 2 * HalfW

\* morphFace: "if (!srcLandmarks || srcLandmarks.length < 400)"
MinLandmarks == 400
\* the length of a full MediaPipe landmark set (with iris refinement)
FullLandmarks == 478

Max(a, b) == IF a >= b THEN a ELSE b
Min(a, b) == IF a <= b THEN a ELSE b
Abs(a) == IF a >= 0 THEN a ELSE 0 - a

\* Math.round of the fraction n/d (d > 0): floor(n/d + 1/2).
RoundDiv(n, d) == (2 * n + d) \div (2 * d)

\* A store into a Uint8ClampedArray: clamped to 0..255 (the value is already
\* an integer wherever the code stores one).
Clamp8(v) == Min(255, Max(0, v))

(***************************************************************************)
(* Landmark entries and landmark arrays.                                   *)
(***************************************************************************)
Pt(x, y) == [k |-> "pt", x |-> x, y |-> y]
\* a null entry of the landmark JSON
NullPt == [k |-> "null", x |-> 0, y |-> 0]
\* an entry [NaN, NaN]
NanPt == [k |-> "nan", x |-> 0, y |-> 0]
\* what indexing past the end of an array gives
UndefPt == [k |-> "undef", x |-> 0, y |-> 0]

\* "p && p[0] !== undefined": the entry is an array with a first component.
Truthy(p) == p.k \in {"pt", "nan"}
IsNum(p) == p.k = "pt"

\* A landmark array: `len` entries, entry i being pts[i] where pts is
\* defined and dflt elsewhere.  A missing array has present = FALSE.
LmArray(len, dflt, pts) == [present |-> TRUE, len |-> len, dflt |-> dflt, pts |-> pts]
NoArray == [present |-> FALSE, len |-> 0, dflt |-> NullPt, pts |-> <<>>]

\* landmarks[i]
At(arr, i) ==
    IF ~arr.present \/ i < 0 \/ i >= arr.len THEN UndefPt
    ELSE IF i \in DOMAIN arr.pts THEN arr.pts[i]
    ELSE arr.dflt

(***************************************************************************)
(* The fixed index tables of the engine.                                   *)
(***************************************************************************)
hullIndices ==
    << 10, 338, 297, 332, 284, 251, 389, 356, 454, 323, 361, 288,
       397, 365, 379, 378, 400, 377, 152, 148, 176, 149, 150, 136,
       172, 58, 132, 93, 234, 127, 162, 21, 54, 103, 67, 109 >>

\* getKeyLandmarkIndices(): the union of the index lists, sorted ascending.
keyLandmarkIndices ==
    << 0, 1, 2, 3, 4, 5, 6, 7, 10, 11, 12, 13, 14, 15, 16, 17, 18, 19, 21, 22, 23, 24, 25, 26,
       27, 28, 29, 30, 31, 32, 33, 34, 35, 36, 37, 38, 39, 40, 41, 42, 44, 45, 46, 47, 48, 49,
       50, 51, 52, 53, 54, 55, 56, 58, 61, 62, 63, 65, 66, 67, 68, 69, 70, 72, 73, 74, 76, 77,
       78, 79, 80, 81, 82, 84, 85, 86, 87, 88, 89, 90, 91, 93, 94, 95, 96, 98, 100, 101, 103,
       104, 105, 107, 108, 109, 110, 111, 112, 114, 115, 116, 117, 118, 119, 120, 121, 122, 123,
       124, 126, 127, 128, 129, 130, 131, 132, 133, 136, 137, 139, 140, 142, 143, 144, 145, 146,
       147, 148, 149, 150, 151, 152, 153, 154, 155, 157, 158, 159, 160, 161, 162, 163, 164, 166,
       168, 169, 170, 171, 172, 173, 174, 175, 176, 178, 179, 180, 181, 183, 185, 187, 188, 190,
       191, 192, 193, 195, 196, 197, 198, 199, 200, 202, 204, 205, 206, 207, 209, 211, 212, 213,
       214, 217, 218, 219, 227, 228, 229, 230, 231, 232, 233, 234, 237, 243, 244, 245, 246, 247,
       248, 249, 251, 252, 253, 254, 255, 256, 257, 258, 259, 260, 261, 262, 263, 264, 265, 266,
       267, 269, 270, 274, 275, 276, 278, 279, 280, 281, 282, 283, 284, 285, 286, 287, 288, 291,
       292, 293, 295, 296, 297, 298, 299, 300, 301, 302, 303, 304, 306, 307, 308, 310, 311, 312,
       314, 315, 316, 317, 318, 319, 320, 321, 323, 324, 325, 327, 329, 330, 332, 333, 334, 336,
       337, 338, 339, 340, 341, 345, 346, 347, 348, 349, 350, 351, 352, 353, 356, 357, 359, 360,
       361, 362, 363, 365, 366, 368, 371, 372, 373, 374, 375, 376, 377, 378, 379, 380, 381, 382,
       384, 385, 386, 387, 388, 389, 390, 397, 398, 399, 400, 402, 403, 404, 405, 408, 409, 410,
       411, 412, 414, 415, 417, 419, 420, 422, 423, 425, 426, 427, 432, 436, 447, 448, 449, 450,
       451, 452, 453, 454, 457, 463, 465, 466, 467, 468, 469, 470, 471, 472, 473, 474, 475, 476,
       477 >>

\* createMouthInteriorMask: the walk of the inner lip contour
innerLipIndices ==
    << 78, 191, 80, 81, 82, 13, 312, 311, 310, 415, 308,
       324, 318, 402, 317, 14, 87, 178, 88, 95 >>

\* Array.prototype.filter over positions lo..hi of a sequence, keeping
\* order (the range is halved so that the evaluation stays shallow).
RECURSIVE FilterRange(_, _, _, _)
FilterRange(s, keep, lo, hi) ==
    IF lo > hi THEN <<>>
    ELSE IF lo = hi THEN (IF keep[lo] THEN <<s[lo]>> ELSE <<>>)
    ELSE LET mid == (lo + hi) \div 2
         IN FilterRange(s, keep, lo, mid) \o FilterRange(s, keep, mid + 1, hi)

\* filter over a sequence; keep[j] tells whether the callback keeps s[j].
FilterSeq(s, keep) == FilterRange(s, keep, 1, Len(s))

(***************************************************************************)
(* Delaunay triangulation (Bowyer-Watson).  A point list is a sequence of  *)
(* entries; the JavaScript index j is position j + 1.  A triangle is a     *)
(* triple of JavaScript indices.                                           *)
(***************************************************************************)

\* inCircumcircle(p, a, b, c): the sign of the 3x3 determinant.
inCircumcircle(p, a, b, c) ==
    LET ax == a.x - p.x
        ay == a.y - p.y
        bx == b.x - p.x
        by == b.y - p.y
        cx == c.x - p.x
        cy == c.y - p.y
        det == (ax * ax + ay * ay) * (bx * cy - cx * by)
               - (bx * bx + by * by) * (ax * cy - cx * ay)
               + (cx * cx + cy * cy) * (ax * by - bx * ay)
    IN det > 0

\* hasEdge(tri, edge): tri.includes(a) && tri.includes(b)
hasEdge(tri, edge) ==
    /\ \E i \in 1..3 : tri[i] = edge[1]
    /\ \E i \in 1..3 : tri[i] = edge[2]

\* The three edges of a triangle, in the order the code lists them.
TriEdges(tri) == << <<tri[1], tri[2]>>, <<tri[2], tri[3]>>, <<tri[3], tri[1]>> >>

\* The boundary of the polygonal hole: every edge of a bad triangle that no
\* other bad triangle has.  `bad` is the set of positions in triList of the
\* bad triangles ("tri === other" compares objects, that is positions).
RECURSIVE HoleEdges(_, _, _, _)
HoleEdges(triList, bad, t, e) ==
    IF t > Len(triList) THEN <<>>
    ELSE IF t \notin bad \/ e > 3 THEN HoleEdges(triList, bad, t + 1, 1)
    ELSE LET edge == TriEdges(triList[t])[e]
             shared == \E o \in bad : o # t /\ hasEdge(triList[o], edge)
         IN (IF shared THEN <<>> ELSE <<edge>>) \o HoleEdges(triList, bad, t, e + 1)

\* triList.filter(tri => !badTriangles.includes(tri))
RECURSIVE DropBad(_, _, _)
DropBad(triList, bad, t) ==
    IF t > Len(triList) THEN <<>>
    ELSE (IF t \in bad THEN <<>> ELSE <<triList[t]>>) \o DropBad(triList, bad, t + 1)

\* The hole re-triangulated with every edge turned round.
RetriangulateReversed(polygon, i) ==
    [e \in 1..Len(polygon) |-> <<polygon[e][2], polygon[e][1], i>>]

\* for (const edge of polygon) triList.push([edge[0], edge[1], i])
Retriangulate(polygon, i) == [e \in 1..Len(polygon) |-> <<polygon[e][1], polygon[e][2], i>>]

InsertPointOneBad(allPoints, triList, i) ==
    LET p == allPoints[i + 1]
        all == {t \in 1..Len(triList) :
                   inCircumcircle(p, allPoints[triList[t][1] + 1],
                                     allPoints[triList[t][2] + 1],
                                     allPoints[triList[t][3] + 1])}
        bad == {t \in all : \A o \in all : t <= o}
    IN IF bad = {} THEN triList
       ELSE DropBad(triList, bad, 1) \o Retriangulate(HoleEdges(triList, bad, 1, 1), i)

\* One round of the insertion loop of bowyerWatson: triList after point i.
InsertPoint(allPoints, triList, i) ==
    LET p == allPoints[i + 1]
        bad == {t \in 1..Len(triList) :
                   inCircumcircle(p, allPoints[triList[t][1] + 1],
                                     allPoints[triList[t][2] + 1],
                                     allPoints[triList[t][3] + 1])}
    IN IF bad = {} THEN triList
       ELSE DropBad(triList, bad, 1) \o Retriangulate(HoleEdges(triList, bad, 1, 1), i)

\* The insertion loop of bowyerWatson for the points lo..hi, in order (the
\* range is halved so that the evaluation stays shallow).
RECURSIVE InsertPoints(_, _, _, _)
InsertPoints(allPoints, triList, lo, hi) ==
    IF lo > hi THEN triList
    ELSE IF lo = hi THEN InsertPoint(allPoints, triList, lo)
    ELSE LET mid == (lo + hi) \div 2
             first == InsertPoints(allPoints, triList, lo, mid)
         IN \* (the test makes the evaluator finish the first half first)
            IF Len(first) >= 0 THEN InsertPoints(allPoints, first, mid + 1, hi)
            ELSE first

bowyerWatsonKeepingSuper(points, width, height) ==
    LET margin == Max(width, height) * 10
        superTri == << Pt(0 - margin, 0 - margin),
                       Pt(width + margin * 2, 0 - margin),
                       Pt(width \div 2, height + margin * 2) >>
        n == Len(points)
    IN InsertPoints(points \o superTri, << <<n, n + 1, n + 2>> >>, 0, n - 1)

\* bowyerWatson(points, width, height); width is even in every call.
bowyerWatson(points, width, height) ==
    LET margin == Max(width, height) * 10
        superTri == << Pt(0 - margin, 0 - margin),
                       Pt(width + margin * 2, 0 - margin),
                       Pt(width \div 2, height + margin * 2) >>
        allPoints == points \o superTri
        n == Len(points)
        triList == InsertPoints(allPoints, << <<n, n + 1, n + 2>> >>, 0, n - 1)
        Inner(tri) == tri[1] < n /\ tri[2] < n /\ tri[3] < n
    IN FilterSeq(triList, [t \in 1..Len(triList) |-> Inner(triList[t])])

\* The JavaScript indices of the points computeDelaunay keeps, ascending.
ValidIndices(points, width, height) ==
    LET Valid(j) == LET p == points[j + 1]
                    IN Truthy(p) /\ IsNum(p) /\ p.x >= 0 /\ p.x < width
                                 /\ p.y >= 0 /\ p.y < height
    IN FilterSeq([j \in 1..Len(points) |-> j - 1], [j \in 1..Len(points) |-> Valid(j - 1)])

\* computeDelaunay returning the triangles of bowyerWatson as they are,
\* without the index map.
computeDelaunayNoRemap(points, width, height) ==
    IF Len(points) < 3 THEN <<>>
    ELSE LET indexMap == ValidIndices(points, width, height)
             validPoints == [j \in 1..Len(indexMap) |-> points[indexMap[j] + 1]]
         IN IF Len(validPoints) < 3 THEN <<>> ELSE bowyerWatson(validPoints, width, height)

\* computeDelaunay(points, width, height)
computeDelaunay(points, width, height) ==
    IF Len(points) < 3 THEN <<>>
    ELSE LET indexMap == ValidIndices(points, width, height)
             validPoints == [j \in 1..Len(indexMap) |-> points[indexMap[j] + 1]]
         IN IF Len(validPoints) < 3 THEN <<>>
            ELSE LET triangles == bowyerWatson(validPoints, width, height)
                 IN [t \in 1..Len(triangles) |->
                        << indexMap[triangles[t][1] + 1],
                           indexMap[triangles[t][2] + 1],
                           indexMap[triangles[t][3] + 1] >>]

(***************************************************************************)
(* Pixel buffers (ImageData): width, height and 4 bytes per pixel,         *)
(* row-major, indexed from 0.                                              *)
(***************************************************************************)
ImageData(w, h, data) == [w |-> w, h |-> h, data |-> data]

\* new ImageData(width, height): all bytes 0
BlankImage(w, h) == ImageData(w, h, [i \in 0..(4 * w * h - 1) |-> 0])

DataLen(img) == 4 * img.w * img.h

(***************************************************************************)
(* Triangle warp.  A triangle is a triple of landmark entries.             *)
(***************************************************************************)

\* computeAffineTransform(srcTri, dstTri): the coefficients as numerators
\* over the determinant det, made positive; ok = FALSE is the null result.
computeAffineTransform(srcTri, dstTri) ==
    LET x0 == srcTri[1].x
        y0 == srcTri[1].y
        x1 == srcTri[2].x
        y1 == srcTri[2].y
        x2 == srcTri[3].x
        y2 == srcTri[3].y
        u0 == dstTri[1].x
        v0 == dstTri[1].y
        u1 == dstTri[2].x
        v1 == dstTri[2].y
        u2 == dstTri[3].x
        v2 == dstTri[3].y
        det == (x0 - x2) * (y1 - y2) - (x1 - x2) * (y0 - y2)
        sg == IF det < 0 THEN 0 - 1 ELSE 1
        a == ((u0 - u2) * (y1 - y2) - (u1 - u2) * (y0 - y2))
        b == ((u1 - u2) * (x0 - x2) - (u0 - u2) * (x1 - x2))
        c == u2 * det - a * x2 - b * y2
        d == ((v0 - v2) * (y1 - y2) - (v1 - v2) * (y0 - y2))
        e == ((v1 - v2) * (x0 - x2) - (v0 - v2) * (x1 - x2))
        f == v2 * det - d * x2 - e * y2
    IN IF det = 0
       THEN [ok |-> FALSE, a |-> 0, b |-> 0, c |-> 0, d |-> 0, e |-> 0, f |-> 0, det |-> 1]
       ELSE [ok |-> TRUE, a |-> sg * a, b |-> sg * b, c |-> sg * c,
             d |-> sg * d, e |-> sg * e, f |-> sg * f, det |-> sg * det]

\* isPointInTriangle(px, py, tri): barycentric test with tolerance 0.001.
isPointInTriangle(px, py, tri) ==
    LET v0x == tri[3].x - tri[1].x
        v0y == tri[3].y - tri[1].y
        v1x == tri[2].x - tri[1].x
        v1y == tri[2].y - tri[1].y
        v2x == px - tri[1].x
        v2y == py - tri[1].y
        dot00 == v0x * v0x + v0y * v0y
        dot01 == v0x * v1x + v0y * v1y
        dot02 == v0x * v2x + v0y * v2y
        dot11 == v1x * v1x + v1y * v1y
        dot12 == v1x * v2x + v1y * v2y
        denom == dot00 * dot11 - dot01 * dot01
        un == dot11 * dot02 - dot01 * dot12
        vn == dot00 * dot12 - dot01 * dot02
    IN IF denom = 0 THEN FALSE
       ELSE /\ 1000 * un >= 0 - denom
            /\ 1000 * vn >= 0 - denom
            /\ 1000 * (un + vn) <= 1001 * denom

\* The bilinear sample of channel ch at the point (sxn/d, syn/d), rounded.
Bilinear(srcData, sxn, syn, d, ch) ==
    LET x0 == sxn \div d
        y0 == syn \div d
        x1 == Min(x0 + 1, srcData.w - 1)
        y1 == Min(y0 + 1, srcData.h - 1)
        fx == sxn - x0 * d
        fy == syn - y0 * d
        v00 == srcData.data[(y0 * srcData.w + x0) * 4 + ch]
        v10 == srcData.data[(y0 * srcData.w + x1) * 4 + ch]
        v01 == srcData.data[(y1 * srcData.w + x0) * 4 + ch]
        v11 == srcData.data[(y1 * srcData.w + x1) * 4 + ch]
        value == v00 * (d - fx) * (d - fy) + v10 * fx * (d - fy)
                 + v01 * (d - fx) * fy + v11 * fx * fy
    IN Clamp8(RoundDiv(value, d * d))

\* The destination pixels warpTriangle writes: those of the clipped bounding
\* box that lie in dstTri and whose inverse image lies in the source.
WarpWrites(srcData, dstData, srcTri, dstTri) ==
    IF \E i \in 1..3 : ~IsNum(dstTri[i]) \/ ~IsNum(srcTri[i]) THEN {}
    ELSE
    LET xs == {dstTri[i].x : i \in 1..3}
        ys == {dstTri[i].y : i \in 1..3}
        minX == Max(0, CHOOSE v \in xs : \A o \in xs : v <= o)
        maxX == Min(dstData.w - 1, CHOOSE v \in xs : \A o \in xs : v >= o)
        minY == Max(0, CHOOSE v \in ys : \A o \in ys : v <= o)
        maxY == Min(dstData.h - 1, CHOOSE v \in ys : \A o \in ys : v >= o)
        m == computeAffineTransform(dstTri, srcTri)
    IN IF minX >= maxX \/ minY >= maxY THEN {}
       ELSE IF ~m.ok THEN {}
       ELSE {xy \in (minX..maxX) \X (minY..maxY) :
                /\ isPointInTriangle(xy[1], xy[2], dstTri)
                /\ LET sxn == m.a * xy[1] + m.b * xy[2] + m.c
                       syn == m.d * xy[1] + m.e * xy[2] + m.f
                   IN ~(sxn < 0 \/ sxn >= (srcData.w - 1) * m.det
                        \/ syn < 0 \/ syn >= (srcData.h - 1) * m.det)}

\* warpTriangle writing every pixel of the clipped bounding box whose sample
\* lies in the source, in the triangle or not.
warpTriangleWholeBox(srcData, dstData, srcTri, dstTri) ==
    LET writes == WarpWrites(srcData, dstData, srcTri, dstTri)
        m == computeAffineTransform(dstTri, srcTri)
        xs == {xy[1] : xy \in writes}
        ys == {xy[2] : xy \in writes}
        InBox(x, y) == (\E a \in xs : a <= x) /\ (\E a \in xs : a >= x)
                       /\ (\E b \in ys : b <= y) /\ (\E b \in ys : b >= y)
        InSource(x, y) == /\ 0 <= m.a * x + m.b * y + m.c
                          /\ m.a * x + m.b * y + m.c < (srcData.w - 1) * m.det
                          /\ 0 <= m.d * x + m.e * y + m.f
                          /\ m.d * x + m.e * y + m.f < (srcData.h - 1) * m.det
    IN IF writes = {} THEN dstData
       ELSE ImageData(dstData.w, dstData.h,
              [i \in DOMAIN dstData.data |->
                 LET x == (i \div 4) % dstData.w
                     y == (i \div 4) \div dstData.w
                 IN IF ~(InBox(x, y) /\ InSource(x, y)) THEN dstData.data[i]
                    ELSE IF i % 4 = 3 THEN 255
                    ELSE Bilinear(srcData, m.a * x + m.b * y + m.c,
                                  m.d * x + m.e * y + m.f, m.det, i % 4)])

\* warpTriangle(srcData, dstData, srcTri, dstTri): dstData after the call.
warpTriangle(srcData, dstData, srcTri, dstTri) ==
    LET writes == WarpWrites(srcData, dstData, srcTri, dstTri)
        m == computeAffineTransform(dstTri, srcTri)
    IN IF writes = {} THEN dstData
       ELSE ImageData(dstData.w, dstData.h,
              [i \in DOMAIN dstData.data |->
                 LET pix == i \div 4
                     ch == i % 4
                     x == pix % dstData.w
                     y == pix \div dstData.w
                 IN IF <<x, y>> \notin writes THEN dstData.data[i]
                    ELSE IF ch = 3 THEN 255
                    ELSE Bilinear(srcData, m.a * x + m.b * y + m.c,
                                  m.d * x + m.e * y + m.f, m.det, ch)])

(***************************************************************************)
(* Masks.  The canvas returns an RGBA image; the code reads its red bytes. *)
(***************************************************************************)

\* The images the canvas may return for a filled and blurred polygon: black,
\* white, white on the left half, and a ramp through 0, 20, 128 and 255.
CanvasRasters == {"none", "full", "left", "ramp"}

\* What the canvas returns in one call of morphFace: the raster of the hull
\* mask and the raster of the inner lip polygon.
CanvasAnswers == {"none", "full", "ramp"} \X {"full", "left"}

\* The value at pixel (x, y) of the raster r of a w x h canvas.
RasterValue(r, w, x, y) ==
    CASE r = "none" -> 0
      [] r = "full" -> 255
      [] r = "left" -> IF 2 * x < w THEN 255 ELSE 0
      [] OTHER -> <<0, 20, 128, 255>>[((x + y) % 4) + 1]

\* maskCtx.getImageData(0, 0, width, height) of a grey, opaque canvas
CanvasImage(r, w, h) ==
    ImageData(w, h, [i \in 0..(4 * w * h - 1) |->
        IF i % 4 = 3 THEN 255
        ELSE RasterValue(r, w, (i \div 4) % w, (i \div 4) \div w)])

\* The absent mask (createFaceMask and createMouthInteriorMask return null).
NoMask == [ok |-> FALSE, img |-> ImageData(0, 0, <<>>)]
SomeMask(img) == [ok |-> TRUE, img |-> img]

\* The number of entries of an index table that are present in landmarks
\* (".map(i => landmarks[i]).filter(p => p && p[0] !== undefined).length").
PresentCount(indices, landmarks) ==
    Cardinality({j \in 1..Len(indices) : Truthy(At(landmarks, indices[j]))})

createFaceMaskTwoPoints(landmarks, width, height, canvas) ==
    IF PresentCount(hullIndices, landmarks) < 2 THEN NoMask
    ELSE SomeMask(CanvasImage(canvas, width, height))

\* createFaceMask(landmarks, width, height); canvas is what the fill and the
\* five blur passes leave on the canvas.
createFaceMask(landmarks, width, height, canvas) ==
    IF PresentCount(hullIndices, landmarks) < 3 THEN NoMask
    ELSE SomeMask(CanvasImage(canvas, width, height))

\* A number that may be NaN: the fraction n/d (d > 0), or NaN.
Num(n, d) == [nan |-> FALSE, n |-> n, d |-> d]
NaN == [nan |-> TRUE, n |-> 0, d |-> 1]

\* detectMouthOpenness dividing by max(width, 1) instead of returning 0 for
\* a width below 1.
detectMouthOpennessMaxWidth(landmarks) ==
    LET verticalOpening == Abs(At(landmarks, 14).y - At(landmarks, 13).y)
        horizontalWidth == Max(1, Abs(At(landmarks, 308).x - At(landmarks, 78).x))
    IN IF \E i \in {13, 14, 78, 308} : ~Truthy(At(landmarks, i))
       THEN Num(0, 1)
       ELSE Num(Max(0, Min(25 * horizontalWidth, 100 * verticalOpening - 8 * horizontalWidth)),
                25 * horizontalWidth)

\* detectMouthOpenness(landmarks):
\* clamp((|bottom.y - top.y| / |right.x - left.x| - 0.08) / 0.25, 0, 1)
detectMouthOpenness(landmarks) ==
    LET topLip == At(landmarks, 13)
        bottomLip == At(landmarks, 14)
        leftCorner == At(landmarks, 78)
        rightCorner == At(landmarks, 308)
        verticalOpening == Abs(bottomLip.y - topLip.y)
        horizontalWidth == Abs(rightCorner.x - leftCorner.x)
    IN IF ~Truthy(topLip) \/ ~Truthy(bottomLip) \/ ~Truthy(leftCorner) \/ ~Truthy(rightCorner)
       THEN Num(0, 1)
       ELSE IF IsNum(leftCorner) /\ IsNum(rightCorner) /\ horizontalWidth < 1
       THEN Num(0, 1)
       ELSE IF ~IsNum(topLip) \/ ~IsNum(bottomLip) \/ ~IsNum(leftCorner) \/ ~IsNum(rightCorner)
       THEN NaN
       ELSE Num(Max(0, Min(25 * horizontalWidth, 100 * verticalOpening - 8 * horizontalWidth)),
                25 * horizontalWidth)

\* createMouthInteriorMask(landmarks, width, height, openness); canvas is
\* what the fill and the 3px blur leave on the canvas.  Only the red byte
\* of each pixel is scaled by min(1, 1.5 * openness).
createMouthInteriorMask(landmarks, width, height, openness, canvas) ==
    IF ~openness.nan /\ 100 * openness.n < 15 * openness.d THEN NoMask
    ELSE IF PresentCount(innerLipIndices, landmarks) < 10 THEN NoMask
    ELSE LET maskData == CanvasImage(canvas, width, height)
             sn == Min(2 * openness.d, 3 * openness.n)
             sd == 2 * openness.d
         IN SomeMask(ImageData(width, height,
                [i \in DOMAIN maskData.data |->
                    IF i % 4 # 0 THEN maskData.data[i]
                    ELSE IF openness.nan THEN 0
                    ELSE Clamp8(RoundDiv(maskData.data[i] * sn, sd))]))

(***************************************************************************)
(* Colour correction.                                                      *)
(***************************************************************************)

\* The sum of channel ch of img over the pixels in the set px.
\* The sum of channel ch of img over the pixels 0..q whose mask value is
\* above 0.5, and the number of those pixels.
RECURSIVE SumChannel(_, _, _, _)
SumChannel(img, mask, q, ch) ==
    IF q < 0 THEN 0
    ELSE (IF 2 * mask.data[4 * q] > 255 THEN img.data[4 * q + ch] ELSE 0)
         + SumChannel(img, mask, q - 1, ch)

MaskedCount(mask) == Cardinality({q \in 0..(mask.w * mask.h - 1) : 2 * mask.data[4 * q] > 255})

\* The first loop of colorCorrect: the number of masked pixels and the sums
\* of the three colour channels of both images over them.
MaskedSums(srcData, targetData, mask) ==
    [count |-> MaskedCount(mask),
     src |-> << SumChannel(srcData, mask, mask.w * mask.h - 1, 0),
                SumChannel(srcData, mask, mask.w * mask.h - 1, 1),
                SumChannel(srcData, mask, mask.w * mask.h - 1, 2) >>,
     tgt |-> << SumChannel(targetData, mask, mask.w * mask.h - 1, 0),
                SumChannel(targetData, mask, mask.w * mask.h - 1, 1),
                SumChannel(targetData, mask, mask.w * mask.h - 1, 2) >>]

\* The factor of channel ch, 1 + 0.5 * (src - tgt) / max(tgt, 1) on the
\* means, as the fraction FactorNum / FactorDen on the sums (the sum of
\* channel ch is entry ch + 1).
FactorDen(sums, ch) == 2 * Max(sums.tgt[ch + 1], sums.count)
FactorNum(sums, ch) == FactorDen(sums, ch) + sums.src[ch + 1] - sums.tgt[ch + 1]

\* The correction loop writing an opaque alpha instead of the target's.
ApplyCorrectionOpaque(targetData, width, height, sums) ==
    ImageData(width, height,
        [i \in 0..(4 * width * height - 1) |->
            IF i % 4 = 3 THEN 255
            ELSE Clamp8(RoundDiv(targetData.data[i] * FactorNum(sums, i % 4),
                                 FactorDen(sums, i % 4)))])

\* The correction loop of colorCorrect.
ApplyCorrection(targetData, width, height, sums) ==
    ImageData(width, height,
        [i \in 0..(4 * width * height - 1) |->
            IF i % 4 = 3 THEN targetData.data[i]
            ELSE Clamp8(RoundDiv(targetData.data[i] * FactorNum(sums, i % 4),
                                 FactorDen(sums, i % 4)))])

\* colorCorrect(srcData, targetData, mask, width, height); the sums are
\* taken once and then used for every byte.
colorCorrect(srcData, targetData, mask, width, height) ==
    CHOOSE corrected \in
        { IF sums.count = 0 THEN targetData
          ELSE ApplyCorrection(targetData, width, height, sums) :
              sums \in { MaskedSums(srcData, targetData, mask) } } : TRUE

(***************************************************************************)
(* The morph orchestrator.                                                 *)
(***************************************************************************)

\* The integer square root of v, sought between lo and hi by halving.
RECURSIVE ISqrt(_, _, _)
ISqrt(v, lo, hi) ==
    IF lo >= hi THEN lo
    ELSE LET mid == (lo + hi + 1) \div 2
         IN IF mid * mid <= v THEN ISqrt(v, mid, hi) ELSE ISqrt(v, lo, mid - 1)

\* 1000 * Math.sqrt(m / 255), rounded down, for a mask byte m.
SqrtMilli(m) == ISqrt((m * 1000000) \div 255, 0, 1000)

\* targetLandmarks.map(p => (!p || p[0] === undefined) ? null
\*                          : [p[0] * scaleX, p[1] * scaleY])
\* with scaleX = srcW / tgtW, scaleY = srcH / tgtH (whole numbers here).
ScaleEntry(p, srcW, srcH, tgtW, tgtH) ==
    IF ~Truthy(p) THEN NullPt
    ELSE IF ~IsNum(p) THEN NanPt
    ELSE Pt((p.x * srcW) \div tgtW, (p.y * srcH) \div tgtH)

ScaleLandmarks(arr, srcW, srcH, tgtW, tgtH) ==
    [present |-> arr.present, len |-> arr.len,
     dflt |-> ScaleEntry(arr.dflt, srcW, srcH, tgtW, tgtH),
     pts |-> [i \in DOMAIN arr.pts |-> ScaleEntry(arr.pts[i], srcW, srcH, tgtW, tgtH)]]

\* tempCtx.drawImage(targetCanvas, 0, 0, srcW, srcH): the target at the
\* source's size.  Equal sizes copy the pixels; the targets of another
\* size are of one colour, which any resampler keeps.
ScaleImage(img, w, h) ==
    IF img.w = w /\ img.h = h THEN img
    ELSE ImageData(w, h, [i \in 0..(4 * w * h - 1) |-> img.data[i % 4]])

\* The first copy loop of morphFace, also that of its early returns and of
\* its catch block: "for (i < src.data.length) out.data[i] = src.data[i]".
\* A store past the end of a typed array does nothing.
CopySource(srcImageData, outputData) ==
    ImageData(outputData.w, outputData.h,
        [i \in DOMAIN outputData.data |->
            IF i < DataLen(srcImageData) THEN srcImageData.data[i]
            ELSE outputData.data[i]])

\* Twice the unsigned area of a triangle of numeric entries:
\* Math.abs((b.x - a.x) * (c.y - a.y) - (c.x - a.x) * (b.y - a.y))
CrossAbs(tri) ==
    Abs((tri[2].x - tri[1].x) * (tri[3].y - tri[1].y)
        - (tri[3].x - tri[1].x) * (tri[2].y - tri[1].y))

\* Whether the warp loop of morphFace reaches warpTriangle for the triangle.
\* An entry [NaN, NaN] makes the "area" NaN, and "NaN < 1.0" is false.
TriangleWarped(indices, srcLandmarks, scaledTargetLandmarks) ==
    LET srcTri == [v \in 1..3 |-> At(srcLandmarks, indices[v])]
        targetTri == [v \in 1..3 |-> At(scaledTargetLandmarks, indices[v])]
        Small(tri) == (\A v \in 1..3 : IsNum(tri[v])) /\ CrossAbs(tri) < 1
    IN /\ \A v \in 1..3 : indices[v] < srcLandmarks.len
       /\ \A v \in 1..3 : indices[v] < scaledTargetLandmarks.len
       /\ \A v \in 1..3 : Truthy(srcTri[v])
       /\ \A v \in 1..3 : Truthy(targetTri[v])
       /\ ~(Small(srcTri) \/ Small(targetTri))

\* The warp loop of morphFace from triangle t on.
RECURSIVE WarpAll(_, _, _, _, _, _)
WarpAll(mappedTriangles, t, scaledTargetData, warpedData, srcLandmarks, scaledTargetLandmarks) ==
    IF t > Len(mappedTriangles) THEN warpedData
    ELSE LET indices == mappedTriangles[t]
             srcTri == [v \in 1..3 |-> At(srcLandmarks, indices[v])]
             targetTri == [v \in 1..3 |-> At(scaledTargetLandmarks, indices[v])]
         IN WarpAll(mappedTriangles, t + 1, scaledTargetData,
                    IF TriangleWarped(indices, srcLandmarks, scaledTargetLandmarks)
                    THEN warpTriangle(scaledTargetData, warpedData, targetTri, srcTri)
                    ELSE warpedData,
                    srcLandmarks, scaledTargetLandmarks)

\* The triangles of morphFace as landmark indices: the Delaunay mesh of the
\* key landmarks present in the scaled target, then the length filter.
MappedTriangles(srcLandmarks, scaledTargetLandmarks, width, height) ==
    LET Present(i) == Truthy(At(scaledTargetLandmarks, i))
        keyTargetPoints ==
            FilterSeq(keyLandmarkIndices,
                      [j \in 1..Len(keyLandmarkIndices) |-> Present(keyLandmarkIndices[j])])
        trianglePoints == [j \in 1..Len(keyTargetPoints) |->
                              At(scaledTargetLandmarks, keyTargetPoints[j])]
        triangles == computeDelaunay(trianglePoints, width, height)
        mapped == [t \in 1..Len(triangles) |->
                      << keyTargetPoints[triangles[t][1] + 1],
                         keyTargetPoints[triangles[t][2] + 1],
                         keyTargetPoints[triangles[t][3] + 1] >>]
        InRange(tri) == \A v \in 1..3 : /\ tri[v] < srcLandmarks.len
                                        /\ tri[v] < scaledTargetLandmarks.len
    IN FilterSeq(mapped, [t \in 1..Len(mapped) |-> InRange(mapped[t])])

BlendFactorIgnoringAlpha(m, alpha, isAnimal) ==
    IF isAnimal
    THEN (IF 10 * m > 255 THEN Num(1, 1) ELSE Num(0, 1))
    ELSE Num(m, 255)

BlendFactorIgnoringMask(m, alpha, isAnimal) == Num(alpha.n, alpha.d)

\* The blend factor of the composite loop as the fraction n/d; alpha is the
\* fraction alpha.n / alpha.d and m the mask byte of the pixel.
BlendFactor(m, alpha, isAnimal) ==
    IF isAnimal
    THEN (IF 10 * m > 255 THEN Num(alpha.n, alpha.d) ELSE Num(0, 1))
    ELSE IF 20 * alpha.n > 19 * alpha.d
    THEN Num(SqrtMilli(m) * alpha.n, 1000 * alpha.d)
    ELSE Num(m * alpha.n, 255 * alpha.d)

BlendByteNoMouth(s, w, b, mm, hasWarpedPixel) ==
    IF hasWarpedPixel /\ 100 * b.n > b.d
    THEN Clamp8(RoundDiv(s * (b.d - b.n) + w * b.n, b.d))
    ELSE s

\* The composite byte with the source mixed back in at every mouth value.
BlendByteAlwaysMouth(s, w, b, mm, hasWarpedPixel) ==
    IF hasWarpedPixel /\ 100 * b.n > b.d
    THEN Clamp8(RoundDiv((s * (b.d - b.n) + w * b.n) * (255 - mm) + s * mm * b.d, 255 * b.d))
    ELSE s

\* The composite byte blended without looking at hasWarpedPixel.
BlendByteIgnoringWarped(s, w, b, mm, hasWarpedPixel) ==
    IF 100 * b.n > b.d
    THEN Clamp8(RoundDiv(s * (b.d - b.n) + w * b.n, b.d))
    ELSE s

\* One colour byte of the composite loop: source byte s, colour-corrected
\* warped byte w, blend factor b, mouth mask byte mm (0 when there is no
\* mouth mask or the target is an animal), hasWarpedPixel.
BlendByte(s, w, b, mm, hasWarpedPixel) ==
    IF hasWarpedPixel /\ 100 * b.n > b.d
    THEN LET morphedPixel == s * (b.d - b.n) + w * b.n
         IN IF 10 * mm > 255
            THEN Clamp8(RoundDiv(morphedPixel * (255 - mm) + s * mm * b.d, 255 * b.d))
            ELSE Clamp8(RoundDiv(morphedPixel, b.d))
    ELSE s

CompositeKeepingAlpha(srcImageData, warpedData, correctedWarpedData, mask, mouthMask, alpha, isAnimal, outputData) ==
    ImageData(outputData.w, outputData.h,
        [i \in DOMAIN outputData.data |->
            LET base == 4 * (i \div 4)
                mm == IF mouthMask.ok /\ ~isAnimal THEN mouthMask.img.data[base] ELSE 0
            IN IF i % 4 = 3 THEN outputData.data[i]
               ELSE BlendByte(srcImageData.data[i], correctedWarpedData.data[i],
                              BlendFactor(mask.data[base], alpha, isAnimal), mm,
                              warpedData.data[base + 3] > 0)])

\* The composite loop of morphFace: outputData after it.
Composite(srcImageData, warpedData, correctedWarpedData, mask, mouthMask, alpha, isAnimal, outputData) ==
    ImageData(outputData.w, outputData.h,
        [i \in DOMAIN outputData.data |->
            LET base == 4 * (i \div 4)
                mm == IF mouthMask.ok /\ ~isAnimal THEN mouthMask.img.data[base] ELSE 0
            IN IF i % 4 = 3 THEN 255
               ELSE BlendByte(srcImageData.data[i], correctedWarpedData.data[i],
                              BlendFactor(mask.data[base], alpha, isAnimal), mm,
                              warpedData.data[base + 3] > 0)])

\* "!landmarks || landmarks.length < 400", the validation of morphFace.
LandmarksInvalidShort(landmarks) == ~landmarks.present \/ landmarks.len < MinLandmarks - 1
LandmarksInvalid(landmarks) == ~landmarks.present \/ landmarks.len < MinLandmarks

\* What morphFace returns: every return statement is a bare "return" and the
\* function ends without one.
ReturnValue(path) == "undefined"

\* What a call leaves behind: the path taken, the returned value, the output
\* buffer and the buffers built on the way.
CallResult(path, out, triangles, warped, corrected, mask, mouthMask, lip) ==
    [path |-> path, ret |-> ReturnValue(path), out |-> out, triangles |-> triangles,
     warped |-> warped, corrected |-> corrected, mask |-> mask, mouthMask |-> mouthMask,
     lip |-> lip]

\* The returns of the validation: the source is copied and nothing else is done.
EarlyReturn(path, srcImageData, outputData) ==
    CallResult(path, CopySource(srcImageData, outputData), <<>>, BlankImage(0, 0),
               BlankImage(0, 0), NoMask, NoMask, "none")

\* The composite loop and the end of morphFace.
CompositeStage(srcImageData, alpha, isAnimal, copied, mappedTriangles, warpedData, mask, mouthMask, correctedWarpedData, lipCanvas) ==
    CallResult("blended",
               Composite(srcImageData, warpedData, correctedWarpedData, mask.img,
                         mouthMask, alpha, isAnimal, copied),
               mappedTriangles, warpedData, correctedWarpedData, mask, mouthMask,
               IF mouthMask.ok THEN lipCanvas ELSE "none")

\* From the face mask on: the return when there is none, else the mouth
\* mask, the colour correction and the composite.
MaskStage(srcImageData, srcLandmarks, alpha, isAnimal, copied, mappedTriangles, warpedData, mask, lipCanvas) ==
    IF ~mask.ok
    THEN CallResult("no face mask", copied, mappedTriangles, warpedData,
                    BlankImage(0, 0), NoMask, NoMask, "none")
    ELSE CompositeStage(srcImageData, alpha, isAnimal, copied, mappedTriangles, warpedData,
                        mask,
                        createMouthInteriorMask(srcLandmarks, copied.w, copied.h,
                                                detectMouthOpenness(srcLandmarks), lipCanvas),
                        colorCorrect(srcImageData, warpedData, mask.img, copied.w, copied.h),
                        lipCanvas)

\* From the warp loop on, for each answer of the canvas.
WarpStage(srcImageData, srcLandmarks, alpha, isAnimal, copied, mappedTriangles, warpedData) ==
    [canvas \in CanvasAnswers |->
        MaskStage(srcImageData, srcLandmarks, alpha, isAnimal, copied, mappedTriangles,
                  warpedData,
                  createFaceMask(srcLandmarks, copied.w, copied.h, canvas[1]), canvas[2])]

\* From the triangulation on.
MeshStage(srcImageData, srcLandmarks, alpha, outputData, isAnimal, scaledTargetLandmarks, scaledTargetData, mappedTriangles) ==
    WarpStage(srcImageData, srcLandmarks, alpha, isAnimal,
              CopySource(srcImageData, outputData), mappedTriangles,
              WarpAll(mappedTriangles, 1, scaledTargetData,
                      BlankImage(outputData.w, outputData.h),
                      srcLandmarks, scaledTargetLandmarks))

\* After the validation: the target landmarks and image scaled to the source.
ScaleStage(srcImageData, srcLandmarks, alpha, outputData, isAnimal, scaledTargetLandmarks, scaledTargetData) ==
    MeshStage(srcImageData, srcLandmarks, alpha, outputData, isAnimal,
              scaledTargetLandmarks, scaledTargetData,
              MappedTriangles(srcLandmarks, scaledTargetLandmarks,
                              outputData.w, outputData.h))

\* morphFace(srcImageData, targetImageData, srcLandmarks, targetLandmarks,
\*           alpha, outputData, isAnimal): for each answer of the canvas, what
\* the call leaves behind.  No input of the model makes the body throw, so
\* the catch block (which copies the source as CopySource does) is not
\* entered.
morphFace(srcImageData, targetImageData, srcLandmarks, targetLandmarks, alpha, outputData, isAnimal) ==
    IF LandmarksInvalid(srcLandmarks)
    THEN [canvas \in CanvasAnswers |->
             EarlyReturn("invalid source landmarks", srcImageData, outputData)]
    ELSE IF LandmarksInvalid(targetLandmarks)
    THEN [canvas \in CanvasAnswers |->
             EarlyReturn("invalid target landmarks", srcImageData, outputData)]
    ELSE ScaleStage(srcImageData, srcLandmarks, alpha, outputData, isAnimal,
                    ScaleLandmarks(targetLandmarks, srcImageData.w, srcImageData.h,
                                   targetImageData.w, targetImageData.h),
                    ScaleImage(targetImageData, srcImageData.w, srcImageData.h))

(***************************************************************************)
(* The inputs of a call.                                                   *)
(***************************************************************************)

\* An image of one colour.
FlatImage(w, h, r, g, b, a) ==
    ImageData(w, h, [i \in 0..(4 * w * h - 1) |-> <<r, g, b, a>>[(i % 4) + 1]])

\* An opaque image whose red grows with x and whose green grows with y.
GradImage(w, h) ==
    ImageData(w, h, [i \in 0..(4 * w * h - 1) |->
        LET x == (i \div 4) % w
            y == (i \div 4) \div w
        IN <<Min(255, 50 + 40 * x), Min(255, 30 + 40 * y), 200, 255>>[(i % 4) + 1]])

\* Source frames: a grey one, a graded one, and a half-transparent one.
SrcImages ==
    { FlatImage(ImgW, ImgH, 100, 100, 100, 255),
      GradImage(ImgW, ImgH),
      FlatImage(ImgW, ImgH, 50, 60, 70, 128) }

\* Target images: the two opaque source frames (a target equal to the
\* source), a red one, and a blue one of half the size.
TgtImages ==
    { FlatImage(ImgW, ImgH, 100, 100, 100, 255),
      GradImage(ImgW, ImgH),
      FlatImage(ImgW, ImgH, 200, 0, 0, 255),
      FlatImage(HalfW, HalfW, 0, 0, 250, 255) }

\* The four corners of the frame on hull landmarks 10, 338, 297, 332.
Corners(w, h) ==
    (10 :> Pt(0, 0)) @@ (338 :> Pt(w - 1, 0)) @@ (297 :> Pt(w - 1, h - 1))
        @@ (332 :> Pt(0, h - 1))

\* An open mouth: inner lip corners 78 and 308 nine apart, lips 13 and 14 two
\* apart (openness (2/9 - 0.08) / 0.25 = 0.57), and six more lip points.
OpenMouth ==
    (78 :> Pt(0 - 3, 1)) @@ (308 :> Pt(6, 1)) @@ (13 :> Pt(1, 0)) @@ (14 :> Pt(1, 2))
        @@ (191 :> Pt(1, 1)) @@ (80 :> Pt(1, 1)) @@ (81 :> Pt(1, 1)) @@ (82 :> Pt(1, 1))
        @@ (312 :> Pt(1, 1)) @@ (311 :> Pt(1, 1))

\* Landmark arrays in the pixel space of a w x h image.
LandmarkSets(w, h) ==
    { \* a full-length array with only the four corners present
      LmArray(FullLandmarks, NullPt, Corners(w, h)),
      \* the same with an open mouth
      LmArray(FullLandmarks, NullPt, OpenMouth @@ Corners(w, h)),
      \* every landmark valid: the corners, all others at (1, 1)
      LmArray(FullLandmarks, Pt(1, 1), Corners(w, h)),
      \* one entry short of the minimum, every entry valid
      LmArray(MinLandmarks - 1, Pt(1, 1), Corners(w, h)),
      \* no array at all
      NoArray,
      \* the minimum length, four entries present, two of them on the hull
      LmArray(MinLandmarks, NullPt,
              (10 :> Pt(0, 0)) @@ (338 :> Pt(w - 1, 0)) @@ (1 :> Pt(0, h - 1))
                  @@ (4 :> Pt(w - 1, h - 1))),
      \* a skewed quadrilateral and an entry [NaN, NaN] on the hull
      LmArray(FullLandmarks, NullPt,
              (10 :> Pt(1, 0)) @@ (338 :> Pt(w - 1, 1)) @@ (297 :> Pt(w - 2, h - 1))
                  @@ (332 :> Pt(0, h - 2)) @@ (284 :> NanPt)),
      \* a full-length array with two points only: no triangle to be had
      LmArray(FullLandmarks, NullPt, (10 :> Pt(0, 0)) @@ (338 :> Pt(w - 1, 0))) }

\* The blend strengths: 0, 1/10 (a mask byte of 20 then gives a blend
\* factor below 0.01), 1/2 and 1.
Alphas == { Num(0, 1), Num(1, 10), Num(1, 2), Num(1, 1) }

\* The sizes of the output buffer: the source's, and half its height.
OutSizes == { <<ImgW, ImgH>>, <<ImgW, HalfW>> }

(***************************************************************************)
(* One call of morphFace.                                                  *)
(***************************************************************************)
VARIABLES
    srcImageData,       \* the source frame
    targetImageData,    \* the target image
    srcLandmarks,       \* the landmarks of the source
    targetLandmarks,    \* the landmarks of the target, in its pixel space
    alpha,              \* the blend strength
    isAnimal,           \* the animal flag
    outputData,         \* the output buffer
    pc,                 \* "call" before the call, "returned" after it
    res,                \* what the call did (morphFace's result record)
    args,               \* the arguments of a call of one of the other functions
    ret,                \* what that call returned
    app,                \* the fields of the FaceMorphApp object
    env,                \* what the page waits for: loads, the pointer, the clock
    editor              \* the fields of the LandmarkEditor object

vars == << srcImageData, targetImageData, srcLandmarks, targetLandmarks,
           alpha, isAnimal, outputData, pc, res, args, ret, app, env, editor >>

\* The page objects while a single function is called.
pageVars == << app, env, editor >>

PageIdle ==
    /\ app = <<>>
    /\ env = <<>>
    /\ editor = <<>>

\* Before the call nothing was done.
NoResult ==
    [path |-> "none", ret |-> "none", out |-> BlankImage(0, 0), triangles |-> <<>>,
     warped |-> BlankImage(0, 0), corrected |-> BlankImage(0, 0),
     mask |-> NoMask, mouthMask |-> NoMask, lip |-> "none"]

Init ==
    /\ srcImageData \in SrcImages
    /\ targetImageData \in TgtImages
    /\ srcLandmarks \in LandmarkSets(ImgW, ImgH)
    /\ targetLandmarks \in LandmarkSets(targetImageData.w, targetImageData.h)
    /\ alpha \in Alphas
    /\ isAnimal \in BOOLEAN
    /\ \E size \in OutSizes : outputData = BlankImage(size[1], size[2])
    /\ pc = "call"
    /\ res = NoResult
    /\ args = <<>>
    /\ ret = <<>>
    /\ PageIdle

\* The caller runs morphFace; the canvas answers with some raster for the
\* hull mask and some raster for the inner lip polygon.
MorphFace ==
    /\ pc = "call"
    /\ \E results \in { morphFace(srcImageData, targetImageData, srcLandmarks,
                                  targetLandmarks, alpha, outputData, isAnimal) } :
          \E canvas \in DOMAIN results : res' = results[canvas]
    /\ outputData' = res'.out
    /\ pc' = "returned"
    /\ UNCHANGED << srcImageData, targetImageData, srcLandmarks, targetLandmarks,
                    alpha, isAnimal, args, ret, pageVars >>

Next == MorphFace

Spec == Init /\ [][Next]_vars
(***************************************************************************)
(* Properties of one call.                                                 *)
(***************************************************************************)
Returned == pc = "returned"

\* The output buffer has the dimensions of the source frame.
SameSize == outputData.w = srcImageData.w /\ outputData.h = srcImageData.h

\* Both landmark arrays are there and have at least 400 entries.
LongEnough(landmarks) == landmarks.present /\ landmarks.len >= MinLandmarks
PassesValidation == LongEnough(srcLandmarks) /\ LongEnough(targetLandmarks)

\* The number of entries of a landmark array that are finite points.
ValidCount(landmarks) ==
    LET listed == {i \in DOMAIN landmarks.pts : i < landmarks.len}
    IN Cardinality({i \in listed : IsNum(landmarks.pts[i])})
       + (IF IsNum(landmarks.dflt) THEN landmarks.len - Cardinality(listed) ELSE 0)

\* The pixels of the output buffer, and the bytes of pixel q.
OutPixels == 0..(outputData.w * outputData.h - 1)
SameColour(q) == \A ch \in 0..2 : outputData.data[4 * q + ch] = srcImageData.data[4 * q + ch]
Within(q, tol) ==
    \A ch \in 0..2 : Abs(outputData.data[4 * q + ch] - srcImageData.data[4 * q + ch]) <= tol

\* Pixel q got a warped target pixel whose colour is not the source's.
WarpedOther(q) ==
    /\ res.warped.data[4 * q + 3] > 0
    /\ \E ch \in 0..2 : res.warped.data[4 * q + ch] # srcImageData.data[4 * q + ch]

\* C1 as stated: with alpha = 0 and inputs that pass validation the output
\* buffer is byte-for-byte the source buffer, alpha bytes included.
C1_ByteForByte ==
    (Returned /\ SameSize /\ PassesValidation /\ alpha.n = 0)
        => outputData = srcImageData

\* C1 amended: with alpha = 0 and inputs that pass validation every output
\* pixel has the source's R, G and B; its alpha byte is 255 when the
\* composite ran and the source's alpha byte when the face mask failed.
C1_ColourKept ==
    (Returned /\ SameSize /\ PassesValidation /\ alpha.n = 0)
        => \A q \in OutPixels :
              /\ SameColour(q)
              /\ outputData.data[4 * q + 3] =
                    IF res.path = "blended" THEN 255 ELSE srcImageData.data[4 * q + 3]

\* A call with alpha = 0 ran the composite over a pixel that has a warped
\* target pixel of another colour under a white mask.
C1_Witness ==
    /\ Returned /\ SameSize /\ PassesValidation /\ alpha.n = 0
    /\ res.path = "blended"
    /\ \E q \in OutPixels : WarpedOther(q) /\ res.mask.img.data[4 * q] = 255

\* C2: when src_lm or tgt_lm is missing or has fewer than 400 entries the
\* call returns with the output equal to the source, having triangulated,
\* warped and blended nothing.
C2_ShortLandmarksCopy ==
    (Returned /\ SameSize /\ ~PassesValidation)
        => /\ outputData = srcImageData
           /\ res.path \in {"invalid source landmarks", "invalid target landmarks"}
           /\ res.triangles = <<>>
           /\ res.mask = NoMask

\* A call whose source landmarks have 399 valid entries, with target
\* landmarks that pass, has returned.
C2_Witness ==
    /\ Returned /\ SameSize
    /\ srcLandmarks.present /\ srcLandmarks.len = MinLandmarks - 1
    /\ ValidCount(srcLandmarks) = MinLandmarks - 1
    /\ LongEnough(targetLandmarks) /\ ValidCount(targetLandmarks) >= MinLandmarks
    /\ alpha.n > 0

\* The failures of the specification's error model, as the inputs show them.
InsufficientLandmarks == ~PassesValidation
MaskConstructionFailed == PassesValidation /\ PresentCount(hullIndices, srcLandmarks) < 3
DegenerateMesh == PassesValidation /\ res.triangles = <<>>
DimensionMismatch == ~SameSize

\* C3 as stated: a call that ends in a failure returns a value that differs
\* from the value a successful morph returns.
C3_FailureReported ==
    (Returned /\ (InsufficientLandmarks \/ MaskConstructionFailed
                    \/ DegenerateMesh \/ DimensionMismatch))
        => res.ret # ReturnValue("blended")

\* C4 as stated: when the output buffer's dimensions differ from the
\* source's, the call leaves every byte of the output buffer as it was
\* (the buffer is all zero before the call).
C4_NoPartialWrite ==
    (Returned /\ DimensionMismatch)
        => outputData = BlankImage(outputData.w, outputData.h)

\* C5 as stated: a landmark array of 400 or more entries of which fewer
\* than 400 are valid makes the call leave the output equal to the source
\* and blend nothing.
C5_ValidEntriesCounted ==
    (Returned /\ SameSize /\ PassesValidation
        /\ (ValidCount(srcLandmarks) < MinLandmarks
              \/ ValidCount(targetLandmarks) < MinLandmarks))
        => outputData = srcImageData /\ res.path # "blended"

\* C6: with fewer than 3 of the 36 hull landmarks present in src_lm the face
\* mask fails and the call returns with the output equal to the source.
C6_MaskFailureCopies ==
    (Returned /\ SameSize /\ PassesValidation
        /\ PresentCount(hullIndices, srcLandmarks) < 3)
        => outputData = srcImageData /\ res.path = "no face mask"

\* The mask failed after triangles had been warped into the scratch buffer,
\* with a blend strength above 0.
C6_Witness ==
    /\ Returned /\ SameSize /\ PassesValidation
    /\ PresentCount(hullIndices, srcLandmarks) < 3
    /\ alpha.n > 0
    /\ \E q \in OutPixels : WarpedOther(q)

\* C7 as stated: after a valid call the alpha byte of every output pixel is
\* 255 on every return path.
C7_AlwaysOpaque ==
    (Returned /\ SameSize /\ PassesValidation)
        => \A q \in OutPixels : outputData.data[4 * q + 3] = 255

\* C7 amended: after a valid call the alpha byte of every output pixel is
\* 255 when the call reached the composite, and the source's alpha byte when
\* the face mask could not be built.
C7_OpaqueAfterComposite ==
    (Returned /\ SameSize /\ PassesValidation)
        => \A q \in OutPixels :
              outputData.data[4 * q + 3] =
                  IF MaskConstructionFailed THEN srcImageData.data[4 * q + 3] ELSE 255

\* A valid call on a source that is not opaque reached the composite.
C7_Witness ==
    /\ Returned /\ SameSize /\ PassesValidation
    /\ res.path = "blended"
    /\ \E q \in OutPixels : srcImageData.data[4 * q + 3] # 255

\* C8: every pixel whose hull mask value is 0 keeps the source's R, G and B.
C8_MaskZeroKeepsSource ==
    (Returned /\ res.mask.ok)
        => \A q \in OutPixels : res.mask.img.data[4 * q] = 0 => SameColour(q)

\* A call with a blend strength above 0 has a pixel of mask value 0 that got
\* a warped target pixel of another colour, and a pixel that was blended.
C8_Witness ==
    /\ Returned /\ res.mask.ok /\ alpha.n > 0
    /\ \E q \in OutPixels : res.mask.img.data[4 * q] = 0 /\ WarpedOther(q)
    /\ \E q \in OutPixels : ~SameColour(q)

\* C9 as stated: with the target image equal to the source, tgt_lm equal to
\* src_lm, all landmarks valid and alpha = 1, every output pixel inside the
\* hull (mask value above 0) is within 1 of the source on each channel and
\* every pixel outside it equals the source.
C9_IdentityWarp ==
    (Returned /\ SameSize /\ res.mask.ok
        /\ targetImageData = srcImageData /\ targetLandmarks = srcLandmarks
        /\ srcLandmarks.present /\ ValidCount(srcLandmarks) = srcLandmarks.len
        /\ alpha.n = alpha.d)
        => \A q \in OutPixels :
              IF res.mask.img.data[4 * q] > 0 THEN Within(q, 1) ELSE SameColour(q)

\* The mouth openness of the source landmarks is at least 0.5.
WideOpen ==
    LET o == detectMouthOpenness(srcLandmarks) IN ~o.nan /\ 2 * o.n >= o.d

\* The target image is of one colour.
UniformTarget ==
    \A i \in DOMAIN targetImageData.data :
        targetImageData.data[i] = targetImageData.data[i % 4]

\* Pixel q is inside the inner lip polygon: the canvas left it white.
InsideLips(q) ==
    /\ res.mouthMask.ok
    /\ RasterValue(res.lip, outputData.w, q % outputData.w, q \div outputData.w) = 255

\* C10 as stated: for a non-animal morph with mouth openness >= 0.5 and a
\* target of one colour, every output pixel inside the inner lip polygon is
\* within 10 of the source on each channel.
C10_TeethWithinTen ==
    (Returned /\ SameSize /\ ~isAnimal /\ WideOpen /\ UniformTarget)
        => \A q \in OutPixels : InsideLips(q) => Within(q, 10)

\* C10 amended: for a non-animal morph with mouth openness >= 0.5 a pixel
\* whose mouth mask byte mm is above 25 is pulled towards the source by
\* mm/255: each channel is within (255 - mm) + 1 of the source, and equals
\* the source where mm = 255, which takes an openness of 2/3.
C10_TeethPulledBack ==
    (Returned /\ SameSize /\ ~isAnimal /\ WideOpen)
        => \A q \in OutPixels :
              (res.mouthMask.ok /\ 10 * res.mouthMask.img.data[4 * q] > 255)
                  => \A ch \in 0..2 :
                        255 * Abs(outputData.data[4 * q + ch] - srcImageData.data[4 * q + ch])
                            <= Abs(res.corrected.data[4 * q + ch]
                                     - srcImageData.data[4 * q + ch])
                                 * (255 - res.mouthMask.img.data[4 * q]) + 128

\* A non-animal morph with an open mouth left a pixel inside the inner lip
\* polygon more than 10 away from the source.
C10_Witness ==
    /\ Returned /\ SameSize /\ ~isAnimal /\ WideOpen /\ UniformTarget
    /\ \E q \in OutPixels : InsideLips(q) /\ ~Within(q, 10)

(***************************************************************************)
(* Calls of the other functions of the engine, one function per            *)
(* specification: the arguments are in args, the returned value in ret,    *)
(* and the variables of morphFace stay as they are.                        *)
(***************************************************************************)
MaxPoints == 4

\* The morph variables while another function is called.
MorphIdle ==
    /\ srcImageData = BlankImage(0, 0)
    /\ targetImageData = BlankImage(0, 0)
    /\ srcLandmarks = NoArray
    /\ targetLandmarks = NoArray
    /\ alpha = Num(0, 1)
    /\ isAnimal = FALSE
    /\ outputData = BlankImage(0, 0)
    /\ res = NoResult

morphVars == << srcImageData, targetImageData, srcLandmarks, targetLandmarks,
                alpha, isAnimal, outputData, res >>

\* The entries of a point list: points of the frame (three of them in a
\* row, four of them on a circle), a point right of the frame, an absent
\* entry and an entry [NaN, NaN].
PointEntries ==
    { Pt(0, 0), Pt(1, 0), Pt(2, 0), Pt(0, 1), Pt(1, 1), Pt(ImgW - 1, ImgH - 2),
      Pt(ImgW, 0), NullPt, NanPt }

\* The sequences of at most n entries.
RECURSIVE PointLists(_)
PointLists(n) ==
    IF n = 0 THEN { <<>> }
    ELSE LET shorter == PointLists(n - 1)
         IN shorter \cup { Append(l, e) : l \in {k \in shorter : Len(k) = n - 1},
                                          e \in PointEntries }

\* bowyerWatson is called with the points computeDelaunay kept.
InFrame(p, width, height) ==
    Truthy(p) /\ IsNum(p) /\ p.x >= 0 /\ p.x < width /\ p.y >= 0 /\ p.y < height

DelaunayInit ==
    /\ MorphIdle
    /\ PageIdle
    /\ pc \in {"computeDelaunay", "bowyerWatson"}
    /\ args \in PointLists(MaxPoints)
    /\ pc = "bowyerWatson" => \A j \in 1..Len(args) : InFrame(args[j], ImgW, ImgH)
    /\ ret = <<>>

ComputeDelaunay ==
    /\ pc = "computeDelaunay"
    /\ ret' = computeDelaunay(args, ImgW, ImgH)
    /\ pc' = "computeDelaunay returned"
    /\ UNCHANGED << morphVars, pageVars, args >>

BowyerWatson ==
    /\ pc = "bowyerWatson"
    /\ ret' = bowyerWatson(args, ImgW, ImgH)
    /\ pc' = "bowyerWatson returned"
    /\ UNCHANGED << morphVars, pageVars, args >>

DelaunayNext == ComputeDelaunay \/ BowyerWatson

SpecDelaunay == DelaunayInit /\ [][DelaunayNext]_vars

DelaunayReturned == pc \in {"computeDelaunay returned", "bowyerWatson returned"}

\* C11: no triangle that bowyerWatson or computeDelaunay returns has an
\* index of a super-triangle vertex (an index >= the number of points), and
\* none has the same index twice.
C11_NoSuperVertex ==
    DelaunayReturned =>
        \A t \in 1..Len(ret) :
            /\ \A v \in 1..3 : ret[t][v] >= 0 /\ ret[t][v] < Len(args)
            /\ ret[t][1] # ret[t][2] /\ ret[t][2] # ret[t][3] /\ ret[t][1] # ret[t][3]

\* The triangulation of four points of the frame (and of lists with absent
\* and outside entries) has returned triangles.
C11_Witness ==
    /\ DelaunayReturned
    /\ Len(args) = MaxPoints
    /\ Len(ret) >= 2

\* Twice the signed area of the triangle a, b, c.
Orient(a, b, c) == (b.x - a.x) * (c.y - a.y) - (c.x - a.x) * (b.y - a.y)

\* p is strictly inside the circle through a, b and c (which are not on one
\* line): the determinant of the in-circle test has the sign of Orient.
StrictlyInside(p, a, b, c) ==
    LET ax == a.x - p.x
        ay == a.y - p.y
        bx == b.x - p.x
        by == b.y - p.y
        cx == c.x - p.x
        cy == c.y - p.y
        det == (ax * ax + ay * ay) * (bx * cy - cx * by)
               - (bx * bx + by * by) * (ax * cy - cx * ay)
               + (cx * cx + cy * cy) * (ax * by - bx * ay)
    IN det * Orient(a, b, c) > 0

\* The entries of the list are points of the frame, no two of them equal.
DistinctInFrame ==
    /\ \A j \in 1..Len(args) : InFrame(args[j], ImgW, ImgH)
    /\ \A j, k \in 1..Len(args) : j # k => args[j] # args[k]

\* C12: for a list of distinct points of the frame, every triangle that
\* computeDelaunay returns is a triangle (its corners are not on one line)
\* with no point of the list strictly inside its circumcircle.
C12_Delaunay ==
    (pc = "computeDelaunay returned" /\ DistinctInFrame) =>
        \A t \in 1..Len(ret) :
            LET a == args[ret[t][1] + 1]
                b == args[ret[t][2] + 1]
                c == args[ret[t][3] + 1]
            IN /\ Orient(a, b, c) # 0
               /\ \A j \in 1..Len(args) : ~StrictlyInside(args[j], a, b, c)

\* Four distinct points of the frame were triangulated into two triangles.
C12_Witness ==
    /\ pc = "computeDelaunay returned" /\ DistinctInFrame
    /\ Len(args) = MaxPoints
    /\ Len(ret) = 2

(***************************************************************************)
(* The landmark editor: interpolateLandmarks.  A placed point is           *)
(* [x, y] in units of 1/Sub pixel (a click divided by the display scale is *)
(* not a whole number of pixels).  Sines and cosines are taken to three    *)
(* decimals by Bhaskara's formula, angles in hundredths of a degree.       *)
(***************************************************************************)
Sub == 2

\* 1000 * sin of c hundredths of a degree.
SinMilli(c) ==
    LET x == c % 36000
        half == x % 18000
        prod == half * (18000 - half)
        value == RoundDiv(4 * prod, (405000000 - prod) \div 1000)
    IN IF x < 18000 THEN value ELSE 0 - value

CosMilli(c) == SinMilli(c + 9000)

\* offset / count of a full turn, in hundredths of a degree.
TurnPart(offset, count) == RoundDiv(36000 * offset, count)

\* Math.floor in place of Math.round.
RoundPxFloor(n, d) == n \div (d * Sub)

\* Math.round of n / d pixels where n is in units of 1/Sub pixel.
RoundPx(n, d) == RoundDiv(n, d * Sub)

\* interpolateRegion(center, radius, offset, count) rounded; the radius is
\* pct percent of width.
interpolateRegion(center, width, pct, offset, count) ==
    Pt(RoundPx(center.x * 100000 + CosMilli(TurnPart(offset, count)) * width * pct, 100000),
       RoundPx(center.y * 100000 + SinMilli(TurnPart(offset, count)) * width * pct, 100000))

\* The branches of generateInterpolatedPoint(index, metrics), rounded; le,
\* re, nose, ml, mr, chin, lc, rc are the placed points.  Twice eyeCenter.y
\* is le.y + re.y and faceHeight is |2 chin.y - (le.y + re.y)|.
FaceHeight(le, re, chin) == Abs(2 * chin.y - (le.y + re.y))

\* "Face outline": the half ellipse through the chin
OutlinePoint(index, le, re, nose, ml, mr, chin, lc, rc) ==
    LET angle == TurnPart(index - 10, 284) + 9000
    IN Pt(RoundPx((le.x + re.x) * 1000 + CosMilli(angle) * Abs(rc.x - lc.x), 2000),
          RoundPx((le.y + re.y) * 1000 + SinMilli(angle) * FaceHeight(le, re, chin), 2000))

\* "Upper face (forehead area)"
ForeheadPoint(index, le, re, nose, ml, mr, chin, lc, rc) ==
    Pt(RoundPx(10 * lc.x + index * (rc.x - lc.x), 10),
       RoundPx(5 * (le.y + re.y) - 3 * FaceHeight(le, re, chin), 10))

\* "Nose bridge"
NoseBridgePoint(index, le, re, nose, ml, mr, chin, lc, rc) ==
    Pt(RoundPx(le.x + re.x, 2),
       RoundPx(7 * (le.y + re.y) + (index - 168) * (2 * nose.y - (le.y + re.y)), 14))

\* "Mouth region"
MouthBandPoint(index, le, re, nose, ml, mr, chin, lc, rc) ==
    Pt(RoundPx(230 * (ml.x + mr.x) + (2 * (index - 61) - 230) * Abs(mr.x - ml.x), 460),
       RoundPx(10000 * (ml.y + mr.y)
                 + SinMilli(TurnPart(index - 61, 230)) * FaceHeight(le, re, chin), 20000))

\* "Eyes region": the band of the eye at `eye`, starting at index `first`
EyeBandPoint(index, first, eye, le, re) ==
    Pt(RoundPx(1000 * eye.x + 3 * Abs(re.x - le.x) * (index - first - 50), 1000),
       RoundPx(100000 * eye.y + 9 * SinMilli(TurnPart(index - first, 100)) * Abs(re.x - le.x),
               100000))

\* "Default: distribute across face"
GridPoint(index, le, re, nose, ml, mr, chin, lc, rc) ==
    Pt(RoundPx(20 * lc.x + (index % 20) * Abs(rc.x - lc.x), 20),
       RoundPx(60 * (le.y + re.y) - 48 * FaceHeight(le, re, chin)
                 + 5 * (index \div 20) * FaceHeight(le, re, chin), 120))

\* generateInterpolatedPoint(index, metrics)
generateInterpolatedPoint(index, le, re, nose, ml, mr, chin, lc, rc) ==
    IF index >= 10 /\ index <= 152
    THEN OutlinePoint(index, le, re, nose, ml, mr, chin, lc, rc)
    ELSE IF index >= 0 /\ index < 10
    THEN ForeheadPoint(index, le, re, nose, ml, mr, chin, lc, rc)
    ELSE IF index >= 168 /\ index <= 175
    THEN NoseBridgePoint(index, le, re, nose, ml, mr, chin, lc, rc)
    ELSE IF index >= 61 /\ index < 291
    THEN MouthBandPoint(index, le, re, nose, ml, mr, chin, lc, rc)
    ELSE IF index >= 33 /\ index < 133
    THEN EyeBandPoint(index, 33, le, le, re)
    ELSE IF index >= 263 /\ index < 362
    THEN EyeBandPoint(index, 263, re, le, re)
    ELSE GridPoint(index, le, re, nose, ml, mr, chin, lc, rc)

\* The loop body of interpolateLandmarks without its five ring rules.
InterpolatedEntryNoRings(i, le, re, nose, ml, mr, chin, lc, rc) ==
    IF i = 152 THEN Pt(RoundPx(chin.x, 1), RoundPx(chin.y, 1))
    ELSE IF i = 234 THEN Pt(RoundPx(lc.x, 1), RoundPx(lc.y, 1))
    ELSE IF i = 454 THEN Pt(RoundPx(rc.x, 1), RoundPx(rc.y, 1))
    ELSE generateInterpolatedPoint(i, le, re, nose, ml, mr, chin, lc, rc)

\* The landmark of index i in the loop of interpolateLandmarks.
InterpolatedEntry(i, le, re, nose, ml, mr, chin, lc, rc) ==
    IF i >= 33 /\ i <= 38 THEN interpolateRegion(le, Abs(re.x - le.x), 15, i - 33, 6)
    ELSE IF i >= 263 /\ i <= 268 THEN interpolateRegion(re, Abs(re.x - le.x), 15, i - 263, 6)
    ELSE IF i >= 1 /\ i <= 5 THEN interpolateRegion(nose, Abs(rc.x - lc.x), 10, i - 1, 5)
    ELSE IF i >= 61 /\ i <= 67 THEN interpolateRegion(ml, Abs(rc.x - lc.x), 5, i - 61, 7)
    ELSE IF i >= 291 /\ i <= 297 THEN interpolateRegion(mr, Abs(rc.x - lc.x), 5, i - 291, 7)
    ELSE IF i = 152 THEN Pt(RoundPx(chin.x, 1), RoundPx(chin.y, 1))
    ELSE IF i = 234 THEN Pt(RoundPx(lc.x, 1), RoundPx(lc.y, 1))
    ELSE IF i = 454 THEN Pt(RoundPx(rc.x, 1), RoundPx(rc.y, 1))
    ELSE generateInterpolatedPoint(i, le, re, nose, ml, mr, chin, lc, rc)

\* interpolateLandmarks(): null with fewer than 8 placed points, else the
\* 478 landmarks (index i at position i + 1).
interpolateLandmarks(placedPoints) ==
    IF Len(placedPoints) < 8 THEN "null"
    ELSE [j \in 1..FullLandmarks |->
            InterpolatedEntry(j - 1, placedPoints[1], placedPoints[2], placedPoints[3],
                              placedPoints[4], placedPoints[5], placedPoints[6],
                              placedPoints[7], placedPoints[8])]

\* A placed point.
Placed(x, y) == [x |-> x, y |-> y]

\* The clicks: eyes, nose and mouth corners of a small face, the left eye at
\* two heights, and chin and cheeks on and off whole pixels; and seven clicks.
PlacedPointSets ==
    { << Placed(3 * Sub, ly), Placed(7 * Sub, 3 * Sub), Placed(5 * Sub, 5 * Sub),
         Placed(4 * Sub, 7 * Sub), Placed(6 * Sub, 7 * Sub),
         Placed(cx, cy), Placed(lx, 5 * Sub), Placed(rx, ry) >> :
        ly \in {3 * Sub, 3 * Sub + 1},
        cx \in {5 * Sub, 5 * Sub + 1}, cy \in {9 * Sub, 9 * Sub + 1},
        lx \in {1 * Sub, 1 * Sub + 1},
        rx \in {9 * Sub, 9 * Sub - 1}, ry \in {5 * Sub, 5 * Sub + 1} }
    \cup { << Placed(3 * Sub, 3 * Sub), Placed(7 * Sub, 3 * Sub), Placed(5 * Sub, 5 * Sub),
              Placed(4 * Sub, 7 * Sub), Placed(6 * Sub, 7 * Sub),
              Placed(5 * Sub, 9 * Sub), Placed(lx, 5 * Sub) >> : lx \in {Sub, Sub + 1} }

InterpolateInit ==
    /\ MorphIdle
    /\ PageIdle
    /\ pc = "saveLandmarks"
    /\ args \in PlacedPointSets
    /\ ret = <<>>

InterpolateLandmarks ==
    /\ pc = "saveLandmarks"
    /\ ret' = interpolateLandmarks(args)
    /\ pc' = "interpolated"
    /\ UNCHANGED << morphVars, pageVars, args >>

SpecInterpolate == InterpolateInit /\ [][InterpolateLandmarks]_vars

\* Entry i of the returned landmarks is exactly the placed point p.
ExactCopy(i, p) == ret[i + 1].x * Sub = p.x /\ ret[i + 1].y * Sub = p.y

\* v is the whole number of pixels nearest to n / Sub (a half goes up).
Nearest(v, n) == 2 * (v * Sub - n) <= Sub /\ 2 * (n - v * Sub) < Sub

\* C13 as stated: with 8 placed points the interpolator returns 478 pairs
\* and its entries 152, 234 and 454 are the placed chin, left cheek and
\* right cheek.
C13_ExactCopies ==
    (pc = "interpolated" /\ Len(args) = 8) =>
        /\ Len(ret) = FullLandmarks
        /\ ExactCopy(152, args[6]) /\ ExactCopy(234, args[7]) /\ ExactCopy(454, args[8])

\* C13 amended: with 8 placed points the interpolator returns 478 pairs of
\* whole numbers, and its entries 152, 234 and 454 are the placed chin, left
\* cheek and right cheek rounded to the nearest whole pixel.
C13_RoundedCopies ==
    (pc = "interpolated" /\ Len(args) = 8) =>
        /\ Len(ret) = FullLandmarks
        /\ \A j \in 1..Len(ret) : ret[j].k = "pt" /\ ret[j].x \in Int /\ ret[j].y \in Int
        /\ \A c \in { <<152, 6>>, <<234, 7>>, <<454, 8>> } :
              /\ Nearest(ret[c[1] + 1].x, args[c[2]].x)
              /\ Nearest(ret[c[1] + 1].y, args[c[2]].y)

\* The interpolator ran on 8 clicks of which the chin is off the pixel grid.
C13_Witness ==
    /\ pc = "interpolated" /\ Len(args) = 8
    /\ args[6].x % Sub # 0 /\ args[6].y % Sub # 0
    /\ ret[153] # ret[235]

(***************************************************************************)
(* The overlay placer of app.js: calculateHeadRotation and applyAddon.     *)
(* Lengths are in thousandths of a pixel, angles in thousandths of a       *)
(* radian.  The 2-D context is its current transform (the calls since the  *)
(* state was saved), its stack of saved states and the images drawn.       *)
(***************************************************************************)
HalfTurn == 3142
QuarterTurn == 1571

\* Math.hypot(dx, dy)
Hypot(dx, dy) == ISqrt((dx * dx + dy * dy) * 1000000, 0, 40000)

\* atan(n / d) for 0 <= n <= d, 0 < d
AtanPart(n, d) == RoundDiv(n * (785 * d + 273 * (d - n)), d * d)

\* Math.atan2(y, x) of two differences of coordinates (a zero is +0)
Atan2(y, x) ==
    IF x = 0 /\ y = 0 THEN 0
    ELSE LET ax == Abs(x)
             ay == Abs(y)
             first == IF ay <= ax THEN AtanPart(ay, ax) ELSE QuarterTurn - AtanPart(ax, ay)
             half == IF x >= 0 THEN first ELSE HalfTurn - first
         IN IF y >= 0 THEN half ELSE 0 - half

\* { yaw, roll, pitch: 0 }; yawNaN says that yaw is NaN (0 / 0)
Rotation(yaw, roll) ==
    [k |-> "value", yawNaN |-> FALSE, yaw |-> yaw, roll |-> roll, pitch |-> 0]
RotationNaN(roll) ==
    [k |-> "value", yawNaN |-> TRUE, yaw |-> 0, roll |-> roll, pitch |-> 0]
TypeError == [k |-> "TypeError", yawNaN |-> FALSE, yaw |-> 0, roll |-> 0, pitch |-> 0]

\* calculateHeadRotation taking the roll from the height difference alone
calculateHeadRotationFlat(landmarks) ==
    Rotation(0, Atan2(At(landmarks, 263).y - At(landmarks, 33).y,
                      Abs(At(landmarks, 263).x - At(landmarks, 33).x)))

\* calculateHeadRotation(landmarks): { yaw, roll, pitch: 0 }, or the
\* TypeError of reading [0] of an undefined cheek.
calculateHeadRotation(landmarks) ==
    LET leftEye == At(landmarks, 33)
        rightEye == At(landmarks, 263)
        noseTip == At(landmarks, 1)
        leftCheek == At(landmarks, 234)
        rightCheek == At(landmarks, 454)
    IN IF \E i \in {33, 263, 1, 152, 10} : ~Truthy(At(landmarks, i))
       THEN Rotation(0, 0)
       ELSE IF ~Truthy(leftCheek) \/ ~Truthy(rightCheek) THEN TypeError
       ELSE LET roll == Atan2(rightEye.y - leftEye.y, rightEye.x - leftEye.x)
                noseToLeft == Hypot(noseTip.x - leftCheek.x, noseTip.y - leftCheek.y)
                noseToRight == Hypot(noseTip.x - rightCheek.x, noseTip.y - rightCheek.y)
            IN IF noseToLeft + noseToRight = 0 THEN RotationNaN(roll)
               ELSE Rotation(RoundDiv((noseToLeft - noseToRight) * QuarterTurn,
                                      noseToLeft + noseToRight), roll)

\* The 2-D context of the output canvas.
Context(transform, stack, drawn) ==
    [transform |-> transform, stack |-> stack, drawn |-> drawn]
FreshContext == Context(<<>>, <<>>, <<>>)

\* What applyAddon leaves: how it ended and the context.
Placed2D(how, ctx) == [k |-> how, ctx |-> ctx]

\* save, translate, rotate, scale, [scale(1, -1)], drawImage, restore
DrawOverlay(ctx, type, rotation, px, py, width, height) ==
    LET moved == ctx.transform \o << <<"translate", px, py>>, <<"rotate", rotation.roll>> >>
        \* scale(NaN, 1) is ignored by the canvas
        scaled == IF rotation.yawNaN THEN moved
                  ELSE Append(moved, <<"scale", 1000 - RoundDiv(Abs(rotation.yaw) * 3, 10), 1000>>)
        flipped == IF type \in {"hat", "moustache", "glasses", "sunglasses"}
                   THEN Append(scaled, <<"scale", 1000, -1000>>) ELSE scaled
    IN Context(ctx.transform, ctx.stack,
               Append(ctx.drawn, [transform |-> flipped, width |-> width, height |-> height]))

\* width and height of the overlay: span * factor / 10 wide, in the
\* proportions of the image
OverlayWidth(span, factor) == RoundDiv(span * factor, 10)
OverlayHeight(span, factor, img) == RoundDiv(OverlayWidth(span, factor) * img.height, img.width)

\* The switch of applyAddon and the drawing after it.
PlaceByType(ctx, addon, landmarks, rotation) ==
    LET a == IF addon.type \in {"glasses", "sunglasses"} THEN At(landmarks, 33)
             ELSE IF addon.type = "moustache" THEN At(landmarks, 61)
             ELSE At(landmarks, 234)
        b == IF addon.type \in {"glasses", "sunglasses"} THEN At(landmarks, 263)
             ELSE IF addon.type = "moustache" THEN At(landmarks, 291)
             ELSE At(landmarks, 454)
        top == At(landmarks, 10)
        span == Hypot(b.x - a.x, b.y - a.y)
        factor == IF addon.type \in {"glasses", "sunglasses"} THEN 22 ELSE 18
        width == OverlayWidth(span, factor)
        height == OverlayHeight(span, factor, addon.imageElement)
    IN IF addon.type \notin {"glasses", "sunglasses", "moustache", "hat"}
       THEN Placed2D("returned", ctx)
       ELSE IF ~Truthy(a) \/ ~Truthy(b) \/ (addon.type = "hat" /\ ~Truthy(top))
       THEN Placed2D("returned", ctx)
       ELSE Placed2D("returned",
              DrawOverlay(ctx, addon.type, rotation,
                 500 * (a.x + b.x),
                 IF addon.type = "hat" THEN 1000 * top.y - RoundDiv(height * 2, 10)
                 ELSE IF addon.type = "moustache"
                 THEN 500 * (a.y + b.y) - RoundDiv(height * 3, 10)
                 ELSE 500 * (a.y + b.y),
                 width, height))

\* applyAddon(): this.cameraLandmarks, this.state.selectedAddon, this.outputCtx
applyAddon(ctx, cameraLandmarks, selectedAddon) ==
    IF ~cameraLandmarks.present \/ ~selectedAddon.selected THEN Placed2D("returned", ctx)
    ELSE IF ~selectedAddon.imageElement.loaded THEN Placed2D("returned", ctx)
    ELSE IF calculateHeadRotation(cameraLandmarks).k = "TypeError"
    THEN Placed2D("TypeError", ctx)
    ELSE PlaceByType(ctx, selectedAddon, cameraLandmarks,
                     calculateHeadRotation(cameraLandmarks))

\* The landmarks read by the overlay placer.
AnchorIndices == {1, 10, 33, 61, 152, 234, 263, 291, 454}

\* A face in the camera frame, with the outer eye corners at le and re.
FacePoints(le, re) ==
    [i \in AnchorIndices |->
        CASE i = 1 -> Pt(10, 12)   [] i = 10 -> Pt(10, 2)   [] i = 33 -> le
          [] i = 61 -> Pt(8, 15)   [] i = 152 -> Pt(10, 20) [] i = 234 -> Pt(3, 11)
          [] i = 263 -> re         [] i = 291 -> Pt(12, 15) [] i = 454 -> Pt(16, 11)]

\* The eye corners: level, tilted, and mirrored as the front camera gives them.
EyePairs == { <<Pt(6, 8), Pt(14, 8)>>, <<Pt(14, 8), Pt(6, 8)>>,
              <<Pt(6, 8), Pt(14, 10)>>, <<Pt(14, 9), Pt(6, 7)>> }

\* Landmark arrays in which the anchors of `gone` are absent.
CameraLandmarkSets ==
    { LmArray(FullLandmarks, Pt(10, 10),
              [i \in AnchorIndices |-> IF i \in gone THEN UndefPt ELSE FacePoints(e[1], e[2])[i]]) :
        gone \in SUBSET AnchorIndices, e \in EyePairs }
    \cup { NoArray }

Addon(selected, type, loaded) ==
    [selected |-> selected, type |-> type,
     imageElement |-> [loaded |-> loaded, width |-> 2, height |-> 1]]

Addons == { Addon(TRUE, t, TRUE) : t \in {"glasses", "sunglasses", "moustache", "hat", "beard"} }
          \cup { Addon(TRUE, "hat", FALSE), Addon(FALSE, "none", FALSE) }

OverlayInit ==
    /\ MorphIdle
    /\ PageIdle
    /\ pc \in {"calculateHeadRotation", "applyAddon"}
    /\ args \in [cameraLandmarks : CameraLandmarkSets, selectedAddon : Addons]
    /\ pc = "calculateHeadRotation" =>
          args.cameraLandmarks.present /\ args.selectedAddon = Addon(FALSE, "none", FALSE)
    /\ ret = <<>>

CalculateHeadRotation ==
    /\ pc = "calculateHeadRotation"
    /\ ret' = calculateHeadRotation(args.cameraLandmarks)
    /\ pc' = "calculateHeadRotation returned"
    /\ UNCHANGED << morphVars, pageVars, args >>

ApplyAddon ==
    /\ pc = "applyAddon"
    /\ ret' = applyAddon(FreshContext, args.cameraLandmarks, args.selectedAddon)
    /\ pc' = "applyAddon ended"
    /\ UNCHANGED << morphVars, pageVars, args >>

OverlayNext == CalculateHeadRotation \/ ApplyAddon

SpecOverlay == OverlayInit /\ [][OverlayNext]_vars

\* The outer eye corners are at the same height.
EyesLevel ==
    /\ Truthy(At(args.cameraLandmarks, 33)) /\ Truthy(At(args.cameraLandmarks, 263))
    /\ At(args.cameraLandmarks, 33).y = At(args.cameraLandmarks, 263).y

Anchors(type) ==
    IF type \in {"glasses", "sunglasses"} THEN {33, 263}
    ELSE IF type = "moustache" THEN {61, 291}
    ELSE IF type = "hat" THEN {10, 234, 454}
    ELSE {}

\* applyAddon ran with an image to draw and an anchor of its type absent.
AnchorMissing ==
    /\ pc = "applyAddon ended"
    /\ args.cameraLandmarks.present
    /\ args.selectedAddon.selected /\ args.selectedAddon.imageElement.loaded
    /\ \E i \in Anchors(args.selectedAddon.type) : ~Truthy(At(args.cameraLandmarks, i))

\* C15: when an anchor landmark of the selected addon kind is absent the
\* overlay draw is skipped: nothing is drawn, the canvas transform is
\* unchanged and no exception escapes, whichever other landmarks are
\* present or absent.
C15_MissingAnchorSkips ==
    AnchorMissing => ret = Placed2D("returned", FreshContext)

(***************************************************************************)
(* colorCorrect on two-pixel buffers.                                      *)
(***************************************************************************)
PatchW == 2

\* A buffer of PatchW pixels in a row, pixel q being px[q + 1] = <<r, g, b, a>>.
Patch(px) == ImageData(PatchW, 1, [i \in 0..(4 * PatchW - 1) |-> px[(i \div 4) + 1][(i % 4) + 1]])

PatchColours == { <<10, 20, 30>>, <<30, 20, 10>>, <<20, 20, 20>>, <<255, 250, 0>> }
PatchPixels(alphas) == { <<c[1], c[2], c[3], a>> : c \in PatchColours, a \in alphas }
Patches(alphas) == { Patch(px) : px \in [1..PatchW -> PatchPixels(alphas)] }

\* Masks: a canvas mask holds the same value in its colour channels; the
\* two values on either side of "maskVal > 0.5".
MaskLevels == {127, 128}
PatchMasks == { Patch([q \in 1..PatchW |-> <<m[q], m[q], m[q], 255>>]) : m \in [1..PatchW -> MaskLevels] }

ColorCorrectInit ==
    /\ MorphIdle
    /\ PageIdle
    /\ pc = "colorCorrect"
    /\ args \in [srcData : Patches({255}), targetData : Patches({0, 255}), mask : PatchMasks]
    /\ ret = <<>>

ColorCorrect ==
    /\ pc = "colorCorrect"
    /\ ret' = colorCorrect(args.srcData, args.targetData, args.mask, PatchW, 1)
    /\ pc' = "colorCorrect returned"
    /\ UNCHANGED << morphVars, pageVars, args >>

SpecColorCorrect == ColorCorrectInit /\ [][ColorCorrect]_vars

\* The pixels whose mask value is above 127.
Masked == { q \in 0..(PatchW - 1) : args.mask.data[4 * q] > 127 }

RECURSIVE Total(_, _, _)
Total(img, ch, qs) ==
    IF qs = {} THEN 0
    ELSE LET q == CHOOSE e \in qs : TRUE
         IN img.data[4 * q + ch] + Total(img, ch, qs \ {q})

\* Source and warped buffer have the same mean in every colour channel over
\* the masked pixels (the same sum, the pixels being the same).
MeansEqual ==
    \A ch \in 0..2 : Total(args.srcData, ch, Masked) = Total(args.targetData, ch, Masked)

\* C16: colorCorrect leaves every byte of the warped buffer as it is, alpha
\* included, when the means of source and warped buffer over the pixels with
\* mask > 127 are equal in every channel, and returns the warped buffer when
\* no pixel has mask > 127.
C16_EqualMeansIdentity ==
    (pc = "colorCorrect returned" /\ (Masked = {} \/ MeansEqual)) => ret = args.targetData

\* colorCorrect ran on buffers that differ pixel by pixel but have equal
\* means over a mask of both pixels, the warped one partly transparent.
C16_Witness ==
    /\ pc = "colorCorrect returned"
    /\ Cardinality(Masked) = PatchW /\ MeansEqual
    /\ \A q \in 0..(PatchW - 1) : args.srcData.data[4 * q] # args.targetData.data[4 * q]
    /\ \E q \in 0..(PatchW - 1) : args.targetData.data[4 * q + 3] = 0

\* colorCorrect ran with no pixel under the mask.
C16_WitnessEmpty ==
    /\ pc = "colorCorrect returned" /\ Masked = {}
    /\ args.srcData.data # args.targetData.data

(***************************************************************************)
(* warpTriangle on its own: a graded source, a blank destination of the    *)
(* same size, and triangles with corners in and around the frame.          *)
(***************************************************************************)
WarpCorners ==
    { Pt(0, 0), Pt(ImgW - 1, 0), Pt(0, ImgH - 1), Pt(ImgW - 1, ImgH - 1),
      Pt(ImgW + 1, 0), Pt(ImgW - 1, ImgH - 2), Pt(1, 1), Pt(0 - 2, 0) }

DstTriangles == { << a, b, c >> : a \in WarpCorners, b \in WarpCorners, c \in WarpCorners }

SrcTriangles ==
    { << Pt(0, 0), Pt(ImgW - 1, 0), Pt(0, ImgH - 1) >>,
      << Pt(1, 0), Pt(ImgW - 2, 1), Pt(1, ImgH - 2) >>,
      << Pt(0, 0), Pt(ImgW - 1, ImgH - 1), Pt(0, ImgH - 1) >> }

WarpInit ==
    /\ MorphIdle
    /\ PageIdle
    /\ pc = "warpTriangle"
    /\ args \in [srcData : {GradImage(ImgW, ImgH)},
                 dstData : {BlankImage(ImgW, ImgH), FlatImage(ImgW, ImgH, 9, 8, 7, 6)},
                 srcTri : SrcTriangles, dstTri : DstTriangles]
    /\ ret = <<>>

WarpTriangle ==
    /\ pc = "warpTriangle"
    /\ ret' = warpTriangle(args.srcData, args.dstData, args.srcTri, args.dstTri)
    /\ pc' = "warpTriangle returned"
    /\ UNCHANGED << morphVars, pageVars, args >>

SpecWarp == WarpInit /\ [][WarpTriangle]_vars

\* Destination pixel (x, y) lies in D, the affine from D to S exists and
\* the sample of (x, y) lies in [0, src.W - 1) x [0, src.H - 1).
Sampled(x, y) ==
    LET m == computeAffineTransform(args.dstTri, args.srcTri)
        sxn == m.a * x + m.b * y + m.c
        syn == m.d * x + m.e * y + m.f
    IN /\ m.ok
       /\ isPointInTriangle(x, y, args.dstTri)
       /\ 0 <= sxn /\ sxn < (args.srcData.w - 1) * m.det
       /\ 0 <= syn /\ syn < (args.srcData.h - 1) * m.det

\* C17: warpTriangle writes every destination pixel inside D whose sample
\* lies in [0, src.W - 1) x [0, src.H - 1): R, G, B are the bilinear sample
\* and A = 255; it gives up early only for an empty clipped bounding box or
\* a degenerate affine.
C17_EveryInsidePixelWritten ==
    pc = "warpTriangle returned" =>
        \A x \in 0..(args.dstData.w - 1), y \in 0..(args.dstData.h - 1) :
            Sampled(x, y) =>
                LET m == computeAffineTransform(args.dstTri, args.srcTri)
                    at == (y * args.dstData.w + x) * 4
                IN /\ ret.data[at + 3] = 255
                   /\ \A ch \in 0..2 :
                         ret.data[at + ch] =
                            Bilinear(args.srcData, m.a * x + m.b * y + m.c,
                                     m.d * x + m.e * y + m.f, m.det, ch)

(***************************************************************************)
(* The warp loop of morphFace on one mapped triangle.                      *)
(***************************************************************************)
LoopPoints == { Pt(0, 0), Pt(1, 0), Pt(0, 1), Pt(ImgW - 1, 0), Pt(0, ImgH - 1), NullPt }

\* Landmark arrays of three entries, indices 0..2.
LoopLandmarks(a, b, c) == LmArray(3, NullPt, [i \in 0..2 |-> << a, b, c >>[i + 1]])

SourceTriples ==
    { LoopLandmarks(a, b, c) : a \in LoopPoints, b \in LoopPoints, c \in LoopPoints }

TargetTriples ==
    { LoopLandmarks(Pt(0, 0), Pt(ImgW - 1, 0), Pt(0, ImgH - 1)),
      LoopLandmarks(Pt(0, 0), Pt(1, 0), Pt(0, 1)),
      LoopLandmarks(Pt(0, 0), Pt(2, 0), Pt(0, 1)),
      LoopLandmarks(Pt(0, 0), Pt(1, 0), Pt(2, 0)),
      LoopLandmarks(Pt(0, 0), NullPt, Pt(0, ImgH - 1)) }

WarpLoopInit ==
    /\ MorphIdle
    /\ PageIdle
    /\ pc = "warp loop"
    /\ args \in [mappedTriangles : { << <<0, 1, 2>> >> },
                 srcLandmarks : SourceTriples, scaledTargetLandmarks : TargetTriples]
    /\ ret = <<>>

\* One pass of the loop: whether warpTriangle was called, and the warped
\* buffer after it.
WarpLoop ==
    /\ pc = "warp loop"
    /\ ret' = [called |-> TriangleWarped(args.mappedTriangles[1], args.srcLandmarks,
                                         args.scaledTargetLandmarks),
               warpedData |-> WarpAll(args.mappedTriangles, 1, GradImage(ImgW, ImgH),
                                      BlankImage(ImgW, ImgH), args.srcLandmarks,
                                      args.scaledTargetLandmarks)]
    /\ pc' = "warp loop done"
    /\ UNCHANGED << morphVars, pageVars, args >>

SpecWarpLoop == WarpLoopInit /\ [][WarpLoop]_vars

\* All three vertices of the triangle are present in the landmark array.
VerticesPresent(arr) == \A i \in 0..2 : At(arr, i).k = "pt"

\* Twice the signed area of the triangle, by the shoelace formula.
Shoelace(arr) ==
    At(arr, 0).x * (At(arr, 1).y - At(arr, 2).y)
    + At(arr, 1).x * (At(arr, 2).y - At(arr, 0).y)
    + At(arr, 2).x * (At(arr, 0).y - At(arr, 1).y)

\* The unsigned area of the triangle is at least 1 square pixel.
AreaAtLeastOne(arr) == Abs(Shoelace(arr)) >= 2

\* C18: the loop warps the mapped triangle exactly when all its source and
\* scaled-target vertices are present and both triangles have an unsigned
\* area (half the absolute cross product) of at least 1.0 square pixel.
C18_WarpedIffAreaAtLeastOne ==
    pc = "warp loop done" =>
        (ret.called <=> /\ VerticesPresent(args.srcLandmarks)
                        /\ VerticesPresent(args.scaledTargetLandmarks)
                        /\ AreaAtLeastOne(args.srcLandmarks)
                        /\ AreaAtLeastOne(args.scaledTargetLandmarks))

(***************************************************************************)
(* The composite loop of morphFace on one pixel, for every mouth-mask byte.*)
(***************************************************************************)
MouthBytes == 0..255

\* A buffer of one pixel.
OnePixel(r, g, b, a) == FlatImage(1, 1, r, g, b, a)

CompositeInputs ==
    [srcImageData : { OnePixel(200, 10, 0, 255), OnePixel(0, 90, 255, 255) },
     warpedData : { OnePixel(40, 40, 40, 255), OnePixel(0, 0, 0, 0) },
     correctedWarpedData : { OnePixel(40, 250, 128, 255) },
     mask : { OnePixel(v, v, v, 255) : v \in {0, 2, 128, 255} },
     mouthMask : { [ok |-> TRUE, img |-> OnePixel(mm, mm, mm, 255)] : mm \in MouthBytes }
                 \cup { [ok |-> FALSE, img |-> BlankImage(0, 0)] },
     alpha : { Num(1, 2), Num(1, 1) },
     isAnimal : BOOLEAN]

CompositeInit ==
    /\ MorphIdle
    /\ PageIdle
    /\ pc = "composite"
    /\ args \in CompositeInputs
    /\ ret = <<>>

CompositeLoop ==
    /\ pc = "composite"
    /\ ret' = Composite(args.srcImageData, args.warpedData, args.correctedWarpedData,
                        args.mask, args.mouthMask, args.alpha, args.isAnimal,
                        BlankImage(1, 1))
    /\ pc' = "composite done"
    /\ UNCHANGED << morphVars, pageVars, args >>

SpecComposite == CompositeInit /\ [][CompositeLoop]_vars

\* The blend factor of the pixel.
Beta == BlendFactor(args.mask.data[0], args.alpha, args.isAnimal)

\* The pixel is blended in a non-animal morph with a mouth mask.
BlendedWithMouth ==
    /\ pc = "composite done"
    /\ ~args.isAnimal /\ args.mouthMask.ok
    /\ args.warpedData.data[3] > 0
    /\ 100 * Beta.n > Beta.d

\* v is n / d rounded to the nearest whole number, a half going up.
RoundOf(v, n, d) == 2 * (v * d - n) <= d /\ 2 * (n - v * d) < d

\* Beta.d times morphed_c = src_c * (1 - beta) + warped_c * beta
MorphedTimesD(ch) ==
    args.srcImageData.data[ch] * (Beta.d - Beta.n) + args.correctedWarpedData.data[ch] * Beta.n

\* out_c = round(morphed_c * (1 - mu) + src_c * mu) with mu = mouth / 255
MouthMixed(ch) ==
    RoundOf(ret.data[ch],
            MorphedTimesD(ch) * (255 - args.mouthMask.img.data[0])
              + args.srcImageData.data[ch] * args.mouthMask.img.data[0] * Beta.d,
            255 * Beta.d)

\* C19 as stated: every blended pixel of a non-animal morph with a mouth
\* mask has out_c = round(morphed_c * (1 - mu) + src_c * mu), for every
\* mouth-mask value 0..255.
C19_MouthMixAlways ==
    BlendedWithMouth => \A ch \in 0..2 : MouthMixed(ch)

\* C19 amended: the mix with the source is made for the mouth-mask values
\* with mu > 0.1 (26..255); for the values 0..25 out_c = round(morphed_c).
C19_MouthMixAboveTenth ==
    BlendedWithMouth =>
        \A ch \in 0..2 :
            IF args.mouthMask.img.data[0] > 25 THEN MouthMixed(ch)
            ELSE RoundOf(ret.data[ch], MorphedTimesD(ch), Beta.d)

\* A blended pixel with a mouth value of 25, where mixing would change it.
C19_Witness ==
    /\ BlendedWithMouth
    /\ args.mouthMask.img.data[0] = 25
    /\ ~MouthMixed(0)

(***************************************************************************)
(* detectMouthOpenness on its own.                                         *)
(***************************************************************************)
MouthIndices == {13, 14, 78, 308}

\* Landmarks of a mouth: inner lips top and bottom, left and right corner.
MouthLandmarks(topLip, bottomLip, leftCorner, rightCorner) ==
    LmArray(FullLandmarks, Pt(1, 1),
            [i \in MouthIndices |->
                CASE i = 13 -> topLip [] i = 14 -> bottomLip
                  [] i = 78 -> leftCorner [] i = 308 -> rightCorner])

MouthSets ==
    { MouthLandmarks(t, b, l, r) :
        t \in { Pt(5, 4), Pt(5, 6), UndefPt },
        b \in { Pt(5, y) : y \in 4..9 } \cup { NullPt },
        l \in { Pt(2, 5), Pt(5, 5) },
        r \in { Pt(x, 5) : x \in {2, 5, 6, 10, 30} } \cup { UndefPt } }

OpennessInit ==
    /\ MorphIdle
    /\ PageIdle
    /\ pc = "detectMouthOpenness"
    /\ args \in MouthSets
    /\ ret = <<>>

DetectMouthOpenness ==
    /\ pc = "detectMouthOpenness"
    /\ ret' = detectMouthOpenness(args)
    /\ pc' = "detectMouthOpenness returned"
    /\ UNCHANGED << morphVars, pageVars, args >>

SpecOpenness == OpennessInit /\ [][DetectMouthOpenness]_vars

\* detectMouthOpenness returned for landmarks 13, 14, 78 and 308 present.
OpennessOfPresent ==
    /\ pc = "detectMouthOpenness returned"
    /\ \A i \in MouthIndices : At(args, i).k = "pt"

MouthHeight == Abs(At(args, 14).y - At(args, 13).y)
MouthWidth == Abs(At(args, 308).x - At(args, 78).x)

\* The returned number is clamp((v / h - 0.08) / 0.25, 0, 1), that is
\* clamp((100 v - 8 h) / (25 h), 0, 1), for a height v and a divisor h > 0.
IsOpenness(v, h) ==
    /\ ~ret.nan /\ ret.d > 0
    /\ IF 100 * v - 8 * h <= 0 THEN ret.n = 0
       ELSE IF 100 * v - 8 * h >= 25 * h THEN ret.n = ret.d
       ELSE ret.n * 25 * h = ret.d * (100 * v - 8 * h)

\* The returned number lies in [0, 1].
InUnitInterval == ~ret.nan /\ ret.d > 0 /\ 0 <= ret.n /\ ret.n <= ret.d

\* C20 as stated: with landmarks 13, 14, 78, 308 present the result is
\* clamp((ratio - 0.08) / 0.25, 0, 1) with ratio = |lm[14].y - lm[13].y| /
\* max(|lm[308].x - lm[78].x|, 1), and lies in [0, 1].
C20_OpennessMaxWidth ==
    OpennessOfPresent => IsOpenness(MouthHeight, Max(MouthWidth, 1)) /\ InUnitInterval

\* C20 amended: with landmarks 13, 14, 78, 308 present the result is 0 when
\* |lm[308].x - lm[78].x| < 1 and otherwise clamp((ratio - 0.08) / 0.25, 0, 1)
\* with ratio = |lm[14].y - lm[13].y| / |lm[308].x - lm[78].x|; it lies in
\* [0, 1].
C20_OpennessZeroBelowOne ==
    OpennessOfPresent =>
        /\ IF MouthWidth < 1 THEN ret.n = 0 ELSE IsOpenness(MouthHeight, MouthWidth)
        /\ InUnitInterval

\* The detector ran on a mouth of no width that is open by some pixels.
C20_Witness ==
    OpennessOfPresent /\ MouthWidth < 1 /\ MouthHeight >= 3

\* The detector ran on a mouth whose openness lies strictly between 0 and 1.
C20_WitnessPartlyOpen ==
    OpennessOfPresent /\ 0 < ret.n /\ ret.n < ret.d

(***************************************************************************)
(* The order of the interpolator's rules.                                  *)
(***************************************************************************)
\* The first rule of the listed order whose inclusive range contains index
\* i; the right eye band is listed as 263..lastEye.
ListedRule(i, lastEye) ==
    IF i \in 33..38 THEN "ring left eye"
    ELSE IF i \in 263..268 THEN "ring right eye"
    ELSE IF i \in 1..5 THEN "ring nose"
    ELSE IF i \in 61..67 THEN "ring mouth left"
    ELSE IF i \in 291..297 THEN "ring mouth right"
    ELSE IF i = 152 THEN "chin"
    ELSE IF i = 234 THEN "left cheek"
    ELSE IF i = 454 THEN "right cheek"
    ELSE IF i \in 0..9 THEN "forehead"
    ELSE IF i \in 10..152 THEN "contour"
    ELSE IF i \in 168..175 THEN "nose bridge"
    ELSE IF i \in 61..291 THEN "mouth band"
    ELSE IF i \in 33..133 THEN "left eye band"
    ELSE IF i \in 263..lastEye THEN "right eye band"
    ELSE "grid"

\* The point a rule gives for index i from the placed points p.
RuleValue(rule, i, p) ==
    CASE rule = "ring left eye" -> interpolateRegion(p[1], Abs(p[2].x - p[1].x), 15, i - 33, 6)
      [] rule = "ring right eye" -> interpolateRegion(p[2], Abs(p[2].x - p[1].x), 15, i - 263, 6)
      [] rule = "ring nose" -> interpolateRegion(p[3], Abs(p[8].x - p[7].x), 10, i - 1, 5)
      [] rule = "ring mouth left" -> interpolateRegion(p[4], Abs(p[8].x - p[7].x), 5, i - 61, 7)
      [] rule = "ring mouth right" -> interpolateRegion(p[5], Abs(p[8].x - p[7].x), 5, i - 291, 7)
      [] rule = "chin" -> Pt(RoundPx(p[6].x, 1), RoundPx(p[6].y, 1))
      [] rule = "left cheek" -> Pt(RoundPx(p[7].x, 1), RoundPx(p[7].y, 1))
      [] rule = "right cheek" -> Pt(RoundPx(p[8].x, 1), RoundPx(p[8].y, 1))
      [] rule = "forehead" -> ForeheadPoint(i, p[1], p[2], p[3], p[4], p[5], p[6], p[7], p[8])
      [] rule = "contour" -> OutlinePoint(i, p[1], p[2], p[3], p[4], p[5], p[6], p[7], p[8])
      [] rule = "nose bridge" -> NoseBridgePoint(i, p[1], p[2], p[3], p[4], p[5], p[6], p[7], p[8])
      [] rule = "mouth band" -> MouthBandPoint(i, p[1], p[2], p[3], p[4], p[5], p[6], p[7], p[8])
      [] rule = "left eye band" -> EyeBandPoint(i, 33, p[1], p[1], p[2])
      [] rule = "right eye band" -> EyeBandPoint(i, 263, p[2], p[1], p[2])
      [] rule = "grid" -> GridPoint(i, p[1], p[2], p[3], p[4], p[5], p[6], p[7], p[8])

InterpolatedEight == pc = "interpolated" /\ Len(args) = 8

BetaOf(q) == BlendFactor(res.mask.img.data[4 * q], alpha, isAnimal)

\* Pixel q has no warped pixel, or its blend factor is at most 0.01.
NotBlended(q) == res.warped.data[4 * q + 3] = 0 \/ 100 * BetaOf(q).n <= BetaOf(q).d

\* C22: in the composite every pixel that no warped triangle covered
\* (warped alpha 0) or whose blend factor is at most 0.01 has the source's
\* R, G and B; and a call whose triangulation gave no usable triangle
\* leaves the source's R, G and B in every pixel.
C22_UnblendedKeepsSource ==
    (Returned /\ SameSize /\ PassesValidation) =>
        /\ res.path = "blended" => \A q \in OutPixels : NotBlended(q) => SameColour(q)
        /\ res.triangles = <<>> => \A q \in OutPixels : SameColour(q)

\* A composite with a positive blend strength ran over a pixel that has a
\* warped pixel of another colour and a blend factor above 0 but not above
\* 0.01, and over a pixel that was blended.
C22_Witness ==
    /\ Returned /\ SameSize /\ PassesValidation /\ res.path = "blended"
    /\ \E q \in OutPixels : WarpedOther(q) /\ BetaOf(q).n > 0 /\ 100 * BetaOf(q).n <= BetaOf(q).d
    /\ \E q \in OutPixels : ~SameColour(q)

\* A composite at full strength under a white mask ran with no usable
\* triangle.
C22_WitnessNoTriangle ==
    /\ Returned /\ SameSize /\ PassesValidation /\ res.path = "blended"
    /\ res.triangles = <<>> /\ alpha.n = alpha.d
    /\ \A q \in OutPixels : res.mask.img.data[4 * q] = 255

(***************************************************************************)
(* The point filter of computeDelaunay.                                    *)
(***************************************************************************)
\* Entry p of a point list is a finite point of [0, W) x [0, H).
Kept(p) ==
    /\ p.k = "pt"
    /\ 0 <= p.x /\ p.x < ImgW
    /\ 0 <= p.y /\ p.y < ImgH

\* C23: every index of a triangle returned by computeDelaunay is the index,
\* in the list passed in, of a point that is present, finite and inside
\* [0, W) x [0, H); with fewer than three such points nothing is returned.
C23_OriginalIndicesOfKept ==
    pc = "computeDelaunay returned" =>
        /\ \A t \in 1..Len(ret) : \A v \in 1..3 :
              /\ ret[t][v] \in 0..(Len(args) - 1)
              /\ Kept(args[ret[t][v] + 1])
        /\ Cardinality({j \in 1..Len(args) : Kept(args[j])}) < 3 => ret = <<>>

\* computeDelaunay returned a triangle for a list whose first entry was
\* dropped, so that every kept point has moved down in the filtered list.
C23_Witness ==
    /\ pc = "computeDelaunay returned"
    /\ Len(ret) >= 1
    /\ ~Kept(args[1])

(***************************************************************************)
(* What warpTriangle leaves alone.                                         *)
(***************************************************************************)
\* The four bytes of destination pixel (x, y) are what they were.
PixelKept(x, y) ==
    \A ch \in 0..3 :
        ret.data[(y * args.dstData.w + x) * 4 + ch]
            = args.dstData.data[(y * args.dstData.w + x) * 4 + ch]

\* D has no area, or lies outside the destination.
NoAreaOrOutside ==
    \/ Shoelace(LoopLandmarks(args.dstTri[1], args.dstTri[2], args.dstTri[3])) = 0
    \/ \A i \in 1..3 : args.dstTri[i].x < 0
    \/ \A i \in 1..3 : args.dstTri[i].x > args.dstData.w - 1

\* C24: warpTriangle changes only destination pixels that lie in D and
\* whose sample lies in [0, src.W - 1) x [0, src.H - 1); every other pixel
\* keeps its bytes, the result has the destination's size, and a D without
\* area or outside the image leaves the destination as it was.
C24_OnlySampledPixelsChange ==
    pc = "warpTriangle returned" =>
        /\ ret.w = args.dstData.w /\ ret.h = args.dstData.h
        /\ \A x \in 0..(args.dstData.w - 1), y \in 0..(args.dstData.h - 1) :
              ~Sampled(x, y) => PixelKept(x, y)
        /\ NoAreaOrOutside => ret = args.dstData

\* A warp onto a destination that is not blank changed some pixels and left
\* others, one of them inside the bounding box of D, as they were.
C24_Witness ==
    /\ pc = "warpTriangle returned"
    /\ args.dstData.data[3] = 6
    /\ \E x \in 0..(args.dstData.w - 1), y \in 0..(args.dstData.h - 1) : ~PixelKept(x, y)
    /\ \E x \in 1..(args.dstData.w - 2), y \in 1..(args.dstData.h - 2) :
          /\ ~Sampled(x, y) /\ PixelKept(x, y)
          /\ ~PixelKept(x - 1, y) /\ ~PixelKept(x, y - 1)

(***************************************************************************)
(* bowyerWatson one insertion at a time: args is the point list, ret the   *)
(* working list triList and the loop counter i.                            *)
(***************************************************************************)
\* The three corners of the super-triangle (width is even in every call).
superTri(width, height) ==
    << Pt(0 - Max(width, height) * 10, 0 - Max(width, height) * 10),
       Pt(width + Max(width, height) * 20, 0 - Max(width, height) * 10),
       Pt(width \div 2, height + Max(width, height) * 20) >>

\* const allPoints = [...points, ...superTri]
allPoints == args \o superTri(ImgW, ImgH)

InsertionInit ==
    /\ MorphIdle
    /\ PageIdle
    /\ pc = "bowyerWatson loop"
    /\ args \in PointLists(MaxPoints)
    /\ \A j \in 1..Len(args) : InFrame(args[j], ImgW, ImgH)
    /\ ret = [triList |-> << <<Len(args), Len(args) + 1, Len(args) + 2>> >>, i |-> 0]

\* One round of "for (let i = 0; i < n; i++)".
InsertOne ==
    /\ pc = "bowyerWatson loop"
    /\ ret.i < Len(args)
    /\ ret' = [triList |-> InsertPoint(allPoints, ret.triList, ret.i), i |-> ret.i + 1]
    /\ UNCHANGED << morphVars, pageVars, args, pc >>

\* After the loop: the triangles without a super-triangle vertex.
FilterResult ==
    /\ pc = "bowyerWatson loop"
    /\ ret.i = Len(args)
    /\ ret' = [triList |-> FilterSeq(ret.triList,
                              [t \in 1..Len(ret.triList) |->
                                  \A v \in 1..3 : ret.triList[t][v] < Len(args)]),
               i |-> ret.i]
    /\ pc' = "bowyerWatson result"
    /\ UNCHANGED << morphVars, pageVars, args >>

InsertionNext == InsertOne \/ FilterResult

SpecInsertion == InsertionInit /\ [][InsertionNext]_vars

\* Twice the signed area of triangle t of the working list.
Winding(t) ==
    Orient(allPoints[ret.triList[t][1] + 1], allPoints[ret.triList[t][2] + 1],
           allPoints[ret.triList[t][3] + 1])

\* C25: for distinct points of the frame, after every insertion every
\* triangle of the working list has the strictly positive winding of the
\* super-triangle, and no returned triangle has zero area; the result is
\* the one bowyerWatson returns.
C25_PositiveWinding ==
    DistinctInFrame =>
        /\ \A t \in 1..Len(ret.triList) : Winding(t) > 0
        /\ pc = "bowyerWatson result" => ret.triList = bowyerWatson(args, ImgW, ImgH)

\* Four distinct points, three of them on one line, have all been inserted
\* and the working list holds triangles with and without super-triangle
\* vertices.
C25_Witness ==
    /\ pc = "bowyerWatson loop" /\ DistinctInFrame
    /\ Len(args) = MaxPoints /\ ret.i = MaxPoints
    /\ \E j \in 1..(Len(args) - 2) : Orient(args[j], args[j + 1], args[j + 2]) = 0
    /\ \E t \in 1..Len(ret.triList) : \A v \in 1..3 : ret.triList[t][v] < Len(args)
    /\ \E t \in 1..Len(ret.triList) : \E v \in 1..3 : ret.triList[t][v] >= Len(args)

(***************************************************************************)
(* The page of the application: the handlers of FaceMorphApp, the loads    *)
(* selectAsset waits for, the pointer on the carousel and the hold timer.  *)
(* The gallery, the status text and the classes of the elements are left   *)
(* out: no handler below reads them.  The target canvas holds the image    *)
(* of targetImage whenever that is not null (line 866).                    *)
(***************************************************************************)
Null == "null"

Asset(name, image, landmarks, gender, isAddon) ==
    [name |-> name, image |-> image, landmarks |-> landmarks, gender |-> gender,
     isAddon |-> isAddon]

\* state.selectedAddon = null
NullAsset == Asset(Null, Null, Null, Null, FALSE)

\* this.assets: entries of three of its categories.
assets ==
    [animals |->
        << Asset("Batrik", "assets/animals/Batrik_sym.png",
                 "assets/landmarks/animals/Batrik_sym.json", "undefined", FALSE) >>,
     celebs |->
        << Asset("Tom Cruise", "assets/male/male_celebs/tom_cruise.jpg",
                 "assets/landmarks/male/male_celebs/tom_cruise.json", "male", FALSE),
           Asset("Asmaa", "assets/female/female_celebs/asmaa.jpeg",
                 "assets/landmarks/female/female_celebs/asmaa.json", "female", FALSE) >>,
     addons |->
        << Asset("Glasses", "assets/male/male_addons/glasses.png", "undefined",
                 "male", TRUE),
           Asset("Glass", "assets/female/female_addons/glass.png", "undefined",
                 "female", TRUE) >>]

Categories == DOMAIN assets

\* The values the user moves the slider to (morphAmount is value / 100 and
\* is kept in hundredths).
SliderValues == {0, 50}

\* The loads of selectAsset that may be in flight at once.
MaxLoads == 2

\* What a frame put on the output canvas: the video alone, an addon, or the
\* result of morphFace called with the flag isAnimal.
Frame(kind, animal) == [kind |-> kind, isAnimal |-> animal]

VideoFrame == Frame("video", FALSE)

NoTimer == [handle |-> FALSE, pending |-> FALSE, index |-> -1]

NoPress == [down |-> FALSE, index |-> -1, over |-> FALSE, replaced |-> FALSE]

\* loadCategory(category), renderFilterCarousel included.
loadCategory(a, category) ==
    LET allAssets == assets[category]
        gender == a.state.detectedGender
        SameGender(x) == x.gender = gender
        filtered == SelectSeq(allAssets, SameGender)
        shown == IF gender # Null /\ category # "animals"
                 THEN (IF Len(filtered) > 0 THEN filtered ELSE allAssets)
                 ELSE allAssets
    IN  [a EXCEPT !.state.currentCategory = category,
                  !.currentAssets = shown,
                  !.state.selectedAddon = IF category # "addons" THEN NullAsset ELSE @,
                  !.state.selectedImageIndex = -1,
                  !.state.morphAmount = 0]

\* renderFilterCarousel replaces every item, the pressed one included.
renderFilterCarousel(e) ==
    [e EXCEPT !.press.replaced = e.press.down]

FreeLoad(loads) == CHOOSE id \in 1..(MaxLoads + 1) : \A t \in loads : t.id # id

\* selectAsset(index) up to its first await: the new fields and the loads.
selectAsset(a, loads, index) ==
    LET picked == [a EXCEPT !.state.selectedImageIndex = index]
        asset == a.currentAssets[index + 1]
    IN  IF index + 1 \notin DOMAIN a.currentAssets THEN << picked, loads >>
        ELSE IF asset.isAddon
        THEN << [picked EXCEPT !.state.selectedAddon = asset,
                               !.targetImage = Null,
                               !.targetLandmarks = Null,
                               !.state.morphAmount = 0], loads >>
        ELSE << [picked EXCEPT !.state.selectedAddon = NullAsset],
                loads \cup { [id |-> FreeLoad(loads), asset |-> asset,
                              await |-> "loadImage"] } >>

\* startRecording(index): the recorder starts, or it is not available.
startRecording(a, outcome) ==
    IF a.state.isRecording \/ outcome # "started" THEN a
    ELSE [a EXCEPT !.mediaRecorder = "recording", !.state.isRecording = TRUE]

stopRecording(a) ==
    IF ~a.state.isRecording \/ a.mediaRecorder = Null THEN a
    ELSE [a EXCEPT !.mediaRecorder = "inactive", !.state.isRecording = FALSE]

\* applyMorph(): the call of morphFace.
applyMorph(a) ==
    IF ~a.cameraLandmarks \/ a.targetLandmarks = Null THEN a
    ELSE [a EXCEPT !.frame = Frame("morph", a.state.currentCategory = "animals")]

\* The fields the constructor sets.
Constructed ==
    [state |-> [currentCategory |-> "celebs", selectedImageIndex |-> -1,
                morphAmount |-> 0, isRecording |-> FALSE,
                selectedAddon |-> NullAsset, detectedGender |-> Null],
     filterHoldTimer |-> NoTimer, isFilterHolding |-> FALSE,
     currentAssets |-> <<>>, targetImage |-> Null, targetLandmarks |-> Null,
     cameraLandmarks |-> FALSE, mediaRecorder |-> Null, frame |-> VideoFrame]

\* Nothing is awaited, no button is down, filterDownTime is long ago.
Quiet == [loads |-> {}, press |-> NoPress, now |-> 800]

\* The page after init(): the constructor's fields and
\* loadCategory(state.currentCategory).
AppInit ==
    /\ MorphIdle
    /\ pc = "page"
    /\ args = <<>>
    /\ ret = <<>>
    /\ editor = <<>>
    /\ app = loadCategory(Constructed, Constructed.state.currentCategory)
    /\ env = Quiet

AppOnly == UNCHANGED << morphVars, pc, args, ret, editor >>

\* A click on a category button.
LoadCategory(category) ==
    /\ pc = "page"
    /\ app' = loadCategory(app, category)
    /\ env' = renderFilterCarousel(env)
    /\ AppOnly

\* scanGenderAndAge() after its await, a face having been detected.
ScanGenderAndAge(gender) ==
    /\ pc = "page"
    /\ app' = loadCategory([app EXCEPT !.state.detectedGender = gender],
                           app.state.currentCategory)
    /\ env' = renderFilterCarousel(env)
    /\ AppOnly

\* The input event of the slider.
SliderInput(value) ==
    /\ pc = "page"
    /\ app' = [app EXCEPT !.state.morphAmount = value]
    /\ UNCHANGED env
    /\ AppOnly

\* onFaceMeshResults(results), with a face in the frame or without one.
OnFaceMeshResults(face) ==
    /\ pc = "page"
    /\ LET seen == [app EXCEPT !.cameraLandmarks = face, !.frame = VideoFrame]
       IN  app' = IF ~face THEN seen
                  ELSE IF app.state.selectedAddon # NullAsset
                  THEN [seen EXCEPT !.frame = Frame("addon", FALSE)]
                  ELSE IF /\ app.state.morphAmount > 1
                          /\ app.targetImage # Null
                          /\ app.targetLandmarks # Null
                  THEN applyMorph(seen)
                  ELSE seen
    /\ UNCHANGED env
    /\ AppOnly

\* A call of selectAsset(index), made for an item that is not the selected
\* one (line 823).
SelectAsset(index) ==
    /\ pc = "page"
    /\ index + 1 \in DOMAIN app.currentAssets
    /\ app.state.selectedImageIndex # index
    /\ LET selected == selectAsset(app, env.loads, index)
       IN  /\ Cardinality(selected[2]) <= MaxLoads
           /\ app' = selected[1]
           /\ env' = [env EXCEPT !.loads = selected[2]]
    /\ AppOnly

\* The image of a load arrived: lines 863 to 868.
ImageLoaded(t) ==
    /\ pc = "page"
    /\ t \in env.loads /\ t.await = "loadImage"
    /\ app' = [app EXCEPT !.targetImage = t.asset.image]
    /\ env' = [env EXCEPT !.loads = (@ \ {t}) \cup {[t EXCEPT !.await = "fetch"]}]
    /\ AppOnly

\* fetch answered: with response.ok the body is read next, without it the
\* landmarks are set to null.
FetchResponded(t, ok) ==
    /\ pc = "page"
    /\ t \in env.loads /\ t.await = "fetch"
    /\ app' = IF ok THEN app ELSE [app EXCEPT !.targetLandmarks = Null]
    /\ env' = [env EXCEPT !.loads = IF ok THEN (@ \ {t}) \cup {[t EXCEPT !.await = "json"]}
                                    ELSE @ \ {t}]
    /\ AppOnly

\* response.json() arrived: lines 870 to 874.
JsonParsed(t) ==
    /\ pc = "page"
    /\ t \in env.loads /\ t.await = "json"
    /\ app' = [app EXCEPT !.targetLandmarks = t.asset.landmarks,
                          !.state.morphAmount = 100]
    /\ env' = [env EXCEPT !.loads = @ \ {t}]
    /\ AppOnly

\* What a load awaits was rejected: the catch of line 879.
LoadRejected(t) ==
    /\ pc = "page"
    /\ t \in env.loads
    /\ env' = [env EXCEPT !.loads = @ \ {t}]
    /\ UNCHANGED app
    /\ AppOnly

\* mousedown or touchstart on the item of an index.
OnFilterDown(index) ==
    /\ pc = "page"
    /\ ~env.press.down
    /\ index + 1 \in DOMAIN app.currentAssets
    /\ app' = [app EXCEPT !.isFilterHolding = TRUE,
                          !.filterHoldTimer =
                              IF app.state.selectedImageIndex = index
                              THEN [handle |-> TRUE, pending |-> TRUE, index |-> index]
                              ELSE @]
    /\ env' = [env EXCEPT !.now = 0,
                          !.press = [down |-> TRUE, index |-> index, over |-> TRUE,
                                     replaced |-> FALSE]]
    /\ AppOnly

\* 800 ms have gone by since filterDownTime.
Elapse ==
    /\ pc = "page"
    /\ env.now = 0
    /\ env' = [env EXCEPT !.now = 800]
    /\ UNCHANGED app
    /\ AppOnly

\* The callback of the hold timer.
HoldTimer(outcome) ==
    /\ pc = "page"
    /\ app.filterHoldTimer.pending
    /\ env.now >= 800
    /\ LET fired == [app EXCEPT !.filterHoldTimer.pending = FALSE]
       IN  app' = IF app.isFilterHolding THEN startRecording(fired, outcome) ELSE fired
    /\ UNCHANGED env
    /\ AppOnly

\* mouseup or touchend on the item under the pointer.
OnFilterUp(index) ==
    /\ pc = "page"
    /\ env.press.down /\ env.press.over /\ env.press.index = index
    /\ index + 1 \in DOMAIN app.currentAssets
    /\ LET wasHolding == app.isFilterHolding
           holdDuration == env.now
           released == [app EXCEPT !.isFilterHolding = FALSE,
                                   !.filterHoldTimer = NoTimer]
           selected == selectAsset(released, env.loads, index)
       IN  IF app.state.isRecording
           THEN /\ app' = stopRecording(released)
                /\ env' = [env EXCEPT !.press = NoPress]
           ELSE IF wasHolding /\ holdDuration < 800
                   /\ app.state.selectedImageIndex # index
           THEN /\ Cardinality(selected[2]) <= MaxLoads
                /\ app' = selected[1]
                /\ env' = [env EXCEPT !.press = NoPress, !.loads = selected[2]]
           ELSE /\ app' = released
                /\ env' = [env EXCEPT !.press = NoPress]
    /\ AppOnly

\* mouseleave of the pressed item: cancelFilterHold().
CancelFilterHold ==
    /\ pc = "page"
    /\ env.press.down /\ env.press.over
    /\ app' = [app EXCEPT !.filterHoldTimer = NoTimer]
    /\ env' = [env EXCEPT !.press.over = FALSE]
    /\ AppOnly

\* The button is released away from the item, or where no item is left.
ReleaseOutside ==
    /\ pc = "page"
    /\ env.press.down
    /\ ~env.press.over \/ env.press.index + 1 \notin DOMAIN app.currentAssets
    /\ env' = [env EXCEPT !.press = NoPress]
    /\ UNCHANGED app
    /\ AppOnly

\* mediaRecorder.onerror
RecorderError ==
    /\ pc = "page"
    /\ app.mediaRecorder = "recording"
    /\ app' = [app EXCEPT !.mediaRecorder = "inactive", !.state.isRecording = FALSE]
    /\ UNCHANGED env
    /\ AppOnly

\* Selecting and morphing: the category buttons, the scan, the slider, the
\* frames, the calls of selectAsset and the loads they started.
AppNext ==
    \/ \E category \in Categories : LoadCategory(category)
    \/ \E gender \in {"male", "female"} : ScanGenderAndAge(gender)
    \/ \E value \in SliderValues : SliderInput(value)
    \/ \E face \in BOOLEAN : OnFaceMeshResults(face)
    \/ \E index \in 0..1 : SelectAsset(index)
    \/ \E t \in env.loads : ImageLoaded(t)
    \/ \E t \in env.loads, ok \in BOOLEAN : FetchResponded(t, ok)
    \/ \E t \in env.loads : JsonParsed(t)
    \/ \E t \in env.loads : LoadRejected(t)

SpecApp == AppInit /\ [][AppNext]_vars

\* The page with one of the tabs open.
HoldInit ==
    /\ MorphIdle
    /\ pc = "page"
    /\ args = <<>>
    /\ ret = <<>>
    /\ editor = <<>>
    /\ \E category \in Categories : app = loadCategory(Constructed, category)
    /\ env = Quiet

\* Pressing the items of the open tab: the pointer, the hold timer, the
\* recorder, the carousel rendered again after a scan, and the loads the
\* taps started.
HoldNext ==
    \/ \E index \in 0..1 : OnFilterDown(index)
    \/ Elapse
    \/ \E outcome \in {"started", "unavailable"} : HoldTimer(outcome)
    \/ \E index \in 0..1 : OnFilterUp(index)
    \/ CancelFilterHold
    \/ ReleaseOutside
    \/ RecorderError
    \/ \E gender \in {"male", "female"} : ScanGenderAndAge(gender)
    \/ \E t \in env.loads : ImageLoaded(t)
    \/ \E t \in env.loads, ok \in BOOLEAN : FetchResponded(t, ok)
    \/ \E t \in env.loads : JsonParsed(t)
    \/ \E t \in env.loads : LoadRejected(t)

SpecHold == HoldInit /\ [][HoldNext]_vars

\* Time goes by and the callback of a pending timer runs; what the user,
\* the network and the recorder do is up to them.
SpecHoldFair == SpecHold /\ WF_vars(Elapse) /\ WF_vars(\E outcome \in {"started", "unavailable"} : HoldTimer(outcome))

(***************************************************************************)
(* Properties of the page.                                                 *)
(***************************************************************************)
\* The asset at state.selectedImageIndex, an asset being selected.
SelectedAsset == app.currentAssets[app.state.selectedImageIndex + 1]

NoLoadPending == env.loads = {}

\* C26: once no load is pending the data in use matches the selected
\* asset: for an addon, selectedAddon is that asset and targetImage and
\* targetLandmarks are null; otherwise selectedAddon is null and
\* targetImage and targetLandmarks, when not null, were loaded from it.
C26_DataMatchesSelection ==
    (pc = "page" /\ NoLoadPending /\ app.state.selectedImageIndex >= 0) =>
        IF SelectedAsset.isAddon
        THEN /\ app.state.selectedAddon = SelectedAsset
             /\ app.targetImage = Null
             /\ app.targetLandmarks = Null
        ELSE /\ app.state.selectedAddon = NullAsset
             /\ app.targetImage \in {Null, SelectedAsset.image}
             /\ app.targetLandmarks \in {Null, SelectedAsset.landmarks}

\* The image and the landmarks in use come from an asset of the animals.
FromAnimals ==
    \E j \in DOMAIN assets.animals :
        /\ app.targetImage = assets.animals[j].image
        /\ app.targetLandmarks = assets.animals[j].landmarks

\* A frame is processed and applyMorph calls morphFace.
MorphFrame ==
    /\ \E face \in BOOLEAN : OnFaceMeshResults(face)
    /\ app'.frame.kind = "morph"

\* C27: whenever applyMorph calls morphFace, the flag it passes is true
\* exactly when the target image and landmarks come from an asset of the
\* animals category.
C27_FlagIsCategoryOfTarget ==
    [][MorphFrame => (app'.frame.isAnimal <=> FromAnimals)]_vars

\* Nothing was selected since loadCategory ran.
NothingSelected == pc = "page" /\ app.state.selectedImageIndex = -1

\* C28: loadCategory leaves selectedImageIndex -1 and morphAmount 0; while
\* nothing is selected no frame is morphed, whatever the slider does, and
\* the completion of a load changes none of morphAmount, targetImage and
\* targetLandmarks.
C28_SwitchResetsSelection ==
    [][/\ (\E category \in Categories : LoadCategory(category)) =>
              (app'.state.selectedImageIndex = -1 /\ app'.state.morphAmount = 0)
       /\ NothingSelected => ~MorphFrame
       /\ (/\ NothingSelected
           /\ \/ \E t \in env.loads : ImageLoaded(t)
              \/ \E t \in env.loads, ok \in BOOLEAN : FetchResponded(t, ok)
              \/ \E t \in env.loads : JsonParsed(t)
              \/ \E t \in env.loads : LoadRejected(t))
          => /\ app'.state.morphAmount = app.state.morphAmount
             /\ app'.targetImage = app.targetImage
             /\ app'.targetLandmarks = app.targetLandmarks]_vars

\* The button is down on the item it went down on, and the carousel was not
\* rendered again since.
PressInProgress ==
    pc = "page" /\ env.press.down /\ env.press.over /\ ~env.press.replaced

\* A recording is active although no press is in progress.
RecordingAfterPress == pc = "page" /\ app.state.isRecording /\ ~PressInProgress

\* C30: once the press that started a recording has ended (release on the
\* item, pointer leaving the item, carousel rendered again) the recording
\* is eventually stopped.
C30_PressEndStopsRecording == RecordingAfterPress ~> ~app.state.isRecording

(***************************************************************************)
(* The landmark editor: animals are chosen, their images load, the canvas  *)
(* is clicked and the landmarks are saved.  A placed point also records    *)
(* the image that was on the canvas when it was clicked.                   *)
(***************************************************************************)
\* this.animals, two of its entries.
animals ==
    << [name |-> "Tiger", image |-> "assets/animals/Tiger.jpeg"],
       [name |-> "Dog", image |-> "assets/animals/Dog_sym.png"] >>

NoAnimal == [name |-> Null, image |-> Null]

\* img.width and img.height of the two images.
ImageSize(image) ==
    IF image = "assets/animals/Tiger.jpeg" THEN [width |-> 600, height |-> 600]
    ELSE [width |-> 1200, height |-> 900]

\* Math.min(maxSize / img.width, maxSize / img.height)
ImageScale(image) == Num(600, Max(ImageSize(image).width, ImageSize(image).height))

\* Where on the canvas the user clicks for the eight key landmarks, in
\* pixels from its corner.
ClickAt ==
    << Pt(3, 3), Pt(7, 3), Pt(5, 5), Pt(4, 7), Pt(6, 7), Pt(5, 9), Pt(1, 5), Pt(9, 5) >>

\* this.keyLandmarks.length
KeyLandmarks == 8

\* { x: (e.clientX - rect.left) / this.scale, y: ... }, in units of 1 / Sub
\* pixel, with the image the canvas showed.
ClickedPoint(click, scale, image) ==
    [x |-> (click.x * Sub * scale.d) \div scale.n,
     y |-> (click.y * Sub * scale.d) \div scale.n,
     image |-> image]

resetPoints(ed) == [ed EXCEPT !.placedPoints = <<>>, !.currentPointIndex = 0]

EditorInit ==
    /\ MorphIdle
    /\ pc = "editor"
    /\ args = <<>>
    /\ ret = <<>>
    /\ app = <<>>
    /\ editor = [currentAnimal |-> NoAnimal, currentImage |-> Null,
                 scale |-> Num(0, 1), placedPoints |-> <<>>, currentPointIndex |-> 0]
    /\ env = [loads |-> {}]

EditorOnly == UNCHANGED << morphVars, args, app >>

\* A click on the button of an animal: loadAnimal(index).
LoadAnimal(index) ==
    /\ pc = "editor"
    /\ Cardinality(env.loads) < MaxLoads
    /\ editor' = resetPoints([editor EXCEPT !.currentAnimal = animals[index + 1]])
    /\ env' = [env EXCEPT !.loads = @ \cup { [id |-> FreeLoad(env.loads),
                                               image |-> animals[index + 1].image] }]
    /\ UNCHANGED << pc, ret >>
    /\ EditorOnly

\* img.onload of a pending image.
ImageOnload(t) ==
    /\ pc = "editor"
    /\ t \in env.loads
    /\ editor' = [editor EXCEPT !.currentImage = t.image, !.scale = ImageScale(t.image)]
    /\ env' = [env EXCEPT !.loads = @ \ {t}]
    /\ UNCHANGED << pc, ret >>
    /\ EditorOnly

\* A pending image fails to load: no handler runs.
ImageError(t) ==
    /\ pc = "editor"
    /\ t \in env.loads
    /\ env' = [env EXCEPT !.loads = @ \ {t}]
    /\ UNCHANGED << pc, ret, editor >>
    /\ EditorOnly

\* handleCanvasClick(e) for the next key landmark.
HandleCanvasClick ==
    /\ pc = "editor"
    /\ editor.currentImage # Null
    /\ editor.currentPointIndex < KeyLandmarks
    /\ editor' = [editor EXCEPT
                    !.placedPoints = Append(@, ClickedPoint(ClickAt[editor.currentPointIndex + 1],
                                                            editor.scale, editor.currentImage)),
                    !.currentPointIndex = @ + 1]
    /\ UNCHANGED << pc, ret, env >>
    /\ EditorOnly

\* The reset button.
ResetPoints ==
    /\ pc = "editor"
    /\ editor' = resetPoints(editor)
    /\ UNCHANGED << pc, ret, env >>
    /\ EditorOnly

\* saveLandmarks() with all points placed: the file and its content.
SaveLandmarks ==
    /\ pc = "editor"
    /\ Len(editor.placedPoints) >= 8
    /\ ret' = [filename |-> editor.currentAnimal.name,
               landmarks |-> interpolateLandmarks(editor.placedPoints)]
    /\ pc' = "saved"
    /\ UNCHANGED << editor, env >>
    /\ EditorOnly

EditorNext ==
    \/ \E index \in 0..(Len(animals) - 1) : LoadAnimal(index)
    \/ \E t \in env.loads : ImageOnload(t)
    \/ \E t \in env.loads : ImageError(t)
    \/ HandleCanvasClick
    \/ ResetPoints
    \/ SaveLandmarks

SpecEditor == EditorInit /\ [][EditorNext]_vars

\* C29: every key point used when landmarks are saved for an animal was
\* placed by a click made while that animal's image was the one on the
\* canvas, and that image is the one the canvas shows.
C29_SavedPointsOfSavedAnimal ==
    pc = "saved" =>
        /\ editor.currentImage = editor.currentAnimal.image
        /\ \A k \in 1..KeyLandmarks :
              editor.placedPoints[k].image = editor.currentAnimal.image
====
